---- MODULE Spec2Model ----
(***************************************************************************)
(* Model of iconservice: the deferred-commit SCORE deploy engine           *)
(* (iconservice/deploy/icon_score_deploy_engine.py) and the collaborators  *)
(* it drives (owner storage, score mapper, file system).                   *)
(***************************************************************************)
EXTENDS Integers, Sequences, FiniteSets, TLC

(***************************************************************************)
(* Bounds and input domains                                                *)
(***************************************************************************)

\* Highest block that is committed.
MaxBlockHeight == 5

\* Longest deferred task queue that invoke is allowed to build.
MaxQueue == 3

\* Deepest context stack that push is allowed to build.
MaxStack == 2

\* The threads that use ContextContainer.
Threads == {"t1", "t2"}

Engines == {"e1", "e2"}

Addresses == {"cx1", "cx2"}

\* The block / tx / msg identity carried by an IconScoreContext.
CtxA == [block |-> [height |-> 1], tx |-> [index |-> 0, origin |-> "hxA"],
         msg |-> [sender |-> "hxA"]]
CtxB == [block |-> [height |-> 2], tx |-> [index |-> 1, origin |-> "hxB"],
         msg |-> [sender |-> "hxB"]]
\* The context of the block being confirmed, as passed to commit.
CtxC == [block |-> [height |-> 3], tx |-> [index |-> 0, origin |-> "hxC"],
         msg |-> [sender |-> "hxC"]]

Contexts == {CtxA, CtxB}

\* Python values of data['content']: a str (sequence of characters) or a
\* bytes object (sequence of integers 0..255).
Str(s) == [kind |-> "str", val |-> s]
Bytes(b) == [kind |-> "bytes", val |-> b]

\* The calldata dicts owned by the callers of invoke, by reference.
DictRefs == {"d_tbears", "d_zip", "d_text", "d_badhex"}

InitDicts ==
    [d \in DictRefs |->
        CASE d = "d_tbears" ->
               [contentType |-> "application/tbears",
                content |-> Str(<<"/", "t", "m", "p">>)]
          [] d = "d_zip" ->
               [contentType |-> "application/zip",
                content |-> Str(<<"0", "x", "0", "a", "1", "f">>)]
          [] d = "d_text" ->
               [contentType |-> "text/plain",
                content |-> Str(<<"0", "x", "0", "a">>)]
          [] d = "d_badhex" ->
               [contentType |-> "application/zip",
                content |-> Str(<<"0", "x", "a">>)]]

Request(context, icon_score_address, data_type, data) ==
    [context |-> context, icon_score_address |-> icon_score_address,
     data_type |-> data_type, data |-> data]

\* The deploy transactions of the modelled blocks: installs of cx1 by two
\* origins with either accepted content type, an install of cx2, an update,
\* and the calls that invoke rejects (data type, content type, hex digits).
Requests ==
    {Request(c, "cx1", "install", d) :
        c \in Contexts, d \in {"d_tbears", "d_zip"}}
    \cup {Request(CtxA, "cx2", "install", "d_zip"),
          Request(CtxB, "cx1", "update", "d_tbears"),
          Request(CtxA, "cx1", "remove", "d_tbears"),
          Request(CtxA, "cx1", "remove", "d_text"),
          Request(CtxA, "cx1", "audit", "d_tbears"),
          Request(CtxA, "cx1", "install", "d_text"),
          Request(CtxA, "cx1", "install", "d_badhex")}

\* What the collaborators called from one install task may do: the symlink
\* call fails with an OSError other than FileExistsError, on_install raises
\* an Exception, or on_install raises SystemExit (a BaseException that is
\* not an Exception).
Outcomes == {"ok", "fs_error", "hook_error", "hook_exit"}

(***************************************************************************)
(* State                                                                   *)
(***************************************************************************)
VARIABLES
    SUPPORT_DATA_TYPES, \* class attribute IconScoreDeployEngine._SUPPORT_DATA_TYPES
    flags,              \* engine -> self._flags, for every constructed engine
    deferred_tasks,     \* engine -> self._deferred_tasks
    dicts,              \* heap of the callers' calldata dicts
    score_owner,        \* IcxStorage: SCORE address -> owner
    fs_dirs,            \* directories under score_root_path
    fs_links,           \* symlinks <<address, height, index>> under them
    score_mapper,       \* IconScoreInfoMapper: addresses with a loaded instance
    score_db,           \* addresses whose SCORE database exists
    on_install_calls,   \* address -> number of on_install() calls so far
    last,               \* the last call: operation, engine, exception, task log
    context_stack,      \* thread -> _thread_local_data.context_stack
    ctx_result,         \* the last ContextContainer call and what it returned
    prep_db,            \* the database behind prep.Storage: key -> value
    prep_registration_fee, \* Storage.prep_registration_fee (the cached fee)
    prep_result,        \* the last Storage call and what it returned
    first_fee,          \* history: default of the open that found no fee
    fee_overwritten,    \* history: put_prep_registration_fee was called
    last_put,           \* history: address -> record of the last put_prep
    ever_put,           \* history: addresses that put_prep has stored
    icx_db,             \* the state store passed to RollbackManager.run
    rc_dirs,            \* reward-calc databases under rc_data_path, by name
    backup_files,       \* backup files under backup_root_path, by height
    rb_result,          \* the last RollbackManager.run and what it returned
    calc_next_block_height, \* IissVariable.issue: next calculation block height
    calc_period,        \* IissVariable.issue: length of a calculation period
    rc_block_batch,     \* precommit_data.rc_block_batch of the last block
    cd_result           \* the last CommitDelegator call

storeVars == <<score_owner, fs_dirs, fs_links, score_mapper, score_db,
               on_install_calls>>
engineVars == <<SUPPORT_DATA_TYPES, flags, deferred_tasks, dicts>>
contextVars == <<context_stack, ctx_result>>
prepVars == <<prep_db, prep_registration_fee, prep_result, first_fee,
              fee_overwritten, last_put, ever_put>>
rollbackVars == <<icx_db, rc_dirs, backup_files, rb_result>>
delegatorVars == <<calc_next_block_height, calc_period, rc_block_batch,
                   cd_result>>
vars == <<engineVars, storeVars, last, contextVars, prepVars, rollbackVars, delegatorVars>>

NoException == "none"
InvalidDataType == "InvalidParamsException: Invalid dataType"
InvalidContentType == "InvalidParamsException: Invalid contentType"

\* IconScoreDeployEngine.Flag
FLAG_NONE == 0
ENABLE_DEPLOY_AUDIT == 1
Flags == {FLAG_NONE, ENABLE_DEPLOY_AUDIT}

None == "None"

\* The record of the last call: the operation, the engine it was called on,
\* the arguments of invoke, the exception that left the call (or none), the
\* log of the tasks commit processed and the tasks rollback dropped.
NoRequest ==
    [context |-> None, icon_score_address |-> None, data_type |-> None,
     data |-> None]

Call(op, e, request, exc, log, dropped) ==
    [op |-> op, engine |-> e, request |-> request, exc |-> exc, log |-> log,
     dropped |-> dropped]

Store ==
    [score_owner |-> score_owner, fs_dirs |-> fs_dirs, fs_links |-> fs_links,
     score_mapper |-> score_mapper, score_db |-> score_db,
     on_install_calls |-> on_install_calls,
     context_stack |-> context_stack]

(***************************************************************************)
(* bytes.fromhex and slicing                                               *)
(***************************************************************************)
HexDigits == {"0", "1", "a", "f"}

HexVal(c) ==
    CASE c = "0" -> 0
      [] c = "1" -> 1
      [] c = "a" -> 10
      [] c = "f" -> 15

\* content[2:]
SliceFrom2(content) ==
    [content EXCEPT !.val = SubSeq(content.val, 3, Len(content.val))]

\* bytes.fromhex(s): s must be a str holding an even number of hex digits.
BytesFromHex(s) ==
    IF s.kind # "str"
    THEN [exc |-> "TypeError", val |-> s]
    ELSE IF Len(s.val) % 2 # 0 \/ \E i \in DOMAIN s.val : s.val[i] \notin HexDigits
    THEN [exc |-> "ValueError", val |-> s]
    ELSE [exc |-> NoException,
          val |-> Bytes([i \in 1..(Len(s.val) \div 2) |->
                           16 * HexVal(s.val[2 * i - 1]) + HexVal(s.val[2 * i])])]

(***************************************************************************)
(* IconScoreDeployEngine                                                   *)
(***************************************************************************)
RECURSIVE BitAnd(_, _)
BitAnd(a, b) ==
    IF a = 0 \/ b = 0
    THEN 0
    ELSE (a % 2) * (b % 2) + 2 * BitAnd(a \div 2, b \div 2)

IsFlagOn(f, flag) == BitAnd(f, flag) = flag

IsDataTypeSupported(data_type) ==
    \E i \in DOMAIN SUPPORT_DATA_TYPES : SUPPORT_DATA_TYPES[i] = data_type

Task(context, icon_score_address, data_type, data) ==
    [block |-> context.block, tx |-> context.tx, msg |-> context.msg,
     icon_score_address |-> icon_score_address, data_type |-> data_type,
     data |-> data]

\* Mutant: the task is inserted at the head of the queue.
PutDeferredTaskFront(tasks, context, icon_score_address, data_type, data) ==
    <<Task(context, icon_score_address, data_type, data)>> \o tasks

PutDeferredTask(tasks, context, icon_score_address, data_type, data) ==
    Append(tasks, Task(context, icon_score_address, data_type, data))

\* The result is the exception raised (or none), the heap of dicts and the
\* queue as the call leaves them.
DeployOnInvoke(tasks, heap, context, icon_score_address, data_type, data) ==
    LET content_type == heap[data].contentType
    IN  IF content_type = "application/tbears"
        THEN [exc |-> NoException, dicts |-> heap,
              tasks |-> PutDeferredTask(tasks, context, icon_score_address,
                                        data_type, data)]
        ELSE IF content_type = "application/zip"
        THEN LET r == BytesFromHex(SliceFrom2(heap[data].content))
                 heap2 == [heap EXCEPT ![data].content = r.val]
             IN  IF r.exc # NoException
                 THEN [exc |-> r.exc, dicts |-> heap, tasks |-> tasks]
                 ELSE [exc |-> NoException, dicts |-> heap2,
                       tasks |-> PutDeferredTask(tasks, context,
                                                 icon_score_address,
                                                 data_type, data)]
        ELSE [exc |-> InvalidContentType, dicts |-> heap, tasks |-> tasks]

\* Mutant: the content type is examined before the data type.
InvokeContentTypeFirst(tasks, heap, context, icon_score_address, data_type, data) ==
    IF heap[data].contentType \notin {"application/tbears", "application/zip"}
    THEN [exc |-> InvalidContentType, dicts |-> heap, tasks |-> tasks]
    ELSE IF ~IsDataTypeSupported(data_type)
    THEN [exc |-> InvalidDataType, dicts |-> heap, tasks |-> tasks]
    ELSE DeployOnInvoke(tasks, heap, context, icon_score_address, data_type, data)

InvokeResult(tasks, heap, context, icon_score_address, data_type, data) ==
    IF ~IsDataTypeSupported(data_type)
    THEN [exc |-> InvalidDataType, dicts |-> heap, tasks |-> tasks]
    ELSE DeployOnInvoke(tasks, heap, context, icon_score_address, data_type, data)

Invoke(e, context, icon_score_address, data_type, data) ==
    /\ e \in DOMAIN flags
    /\ Len(deferred_tasks[e]) < MaxQueue
    /\ LET r == InvokeResult(deferred_tasks[e], dicts, context,
                             icon_score_address, data_type, data)
       IN  /\ deferred_tasks' = [deferred_tasks EXCEPT ![e] = r.tasks]
           /\ dicts' = r.dicts
           /\ last' = Call("invoke", e,
                           Request(context, icon_score_address, data_type, data),
                           r.exc, <<>>, <<>>)
    /\ UNCHANGED <<SUPPORT_DATA_TYPES, flags, storeVars, contextVars, prepVars, rollbackVars, delegatorVars>>

(***************************************************************************)
(* ContextContainer (iconscore/context/context.py)                         *)
(***************************************************************************)
\* The value of the thread-local attribute context_stack: None (never set,
\* or set to None by clear) or a list of contexts.
NoStack == [is_none |-> TRUE, items |-> <<>>]
List(items) == [is_none |-> FALSE, items |-> items]

\* The None that _get_context returns.
NoContext == [none |-> TRUE]

FatalException == "FatalException"

\* getattr(_thread_local_data, "context_stack", None) on thread t
StackOf(stacks, t) == stacks[t]

\* Mutant: the attribute is shared by all threads.
SetStackAllThreads(stacks, t, value) == [u \in DOMAIN stacks |-> value]

\* setattr(_thread_local_data, "context_stack", value) on thread t; a list
\* that is changed in place is the same write.
SetStack(stacks, t, value) == [stacks EXCEPT ![t] = value]

\* What a ContextContainer call leaves: the stacks, the value returned and
\* the exception raised.
CtxOutcome(stacks, ret, exc) == [stacks |-> stacks, ret |-> ret, exc |-> exc]

\* Mutant: the oldest context is returned.
GetOldestContext(stacks, t) ==
    LET cs == StackOf(stacks, t)
    IN  IF ~cs.is_none /\ Len(cs.items) > 0
        THEN CtxOutcome(stacks, cs.items[1], NoException)
        ELSE CtxOutcome(stacks, NoContext, NoException)

\* ContextContainer._get_context
GetContext(stacks, t) ==
    LET cs == StackOf(stacks, t)
    IN  IF ~cs.is_none /\ Len(cs.items) > 0
        THEN CtxOutcome(stacks, cs.items[Len(cs.items)], NoException)
        ELSE CtxOutcome(stacks, NoContext, NoException)

\* ContextContainer._push_context
PushContext(stacks, t, context) ==
    LET cs == StackOf(stacks, t)
        items == IF cs.is_none THEN <<>> ELSE cs.items
    IN  CtxOutcome(SetStack(stacks, t, List(Append(items, context))),
                   NoContext, NoException)

\* Mutant: pop on an empty stack returns None.
PopOrNone(stacks, t) ==
    LET cs == StackOf(stacks, t)
    IN  IF ~cs.is_none /\ Len(cs.items) > 0
        THEN CtxOutcome(SetStack(stacks, t,
                                 List(SubSeq(cs.items, 1, Len(cs.items) - 1))),
                        cs.items[Len(cs.items)], NoException)
        ELSE CtxOutcome(stacks, NoContext, NoException)

\* ContextContainer._pop_context
PopContext(stacks, t) ==
    LET cs == StackOf(stacks, t)
    IN  IF ~cs.is_none /\ Len(cs.items) > 0
        THEN CtxOutcome(SetStack(stacks, t,
                                 List(SubSeq(cs.items, 1, Len(cs.items) - 1))),
                        cs.items[Len(cs.items)], NoException)
        ELSE CtxOutcome(stacks, NoContext, FatalException)

\* ContextContainer._clear_context
ClearContext(stacks, t) ==
    CtxOutcome(SetStack(stacks, t, NoStack), NoContext, NoException)

\* ContextContainer._get_context_stack_size
GetContextStackSize(stacks, t) ==
    LET cs == StackOf(stacks, t)
    IN  IF cs.is_none THEN 0 ELSE Len(cs.items)

(***************************************************************************)
(* Collaborators of the install procedure                                  *)
(***************************************************************************)
\* IcxStorage.put_score_owner
PutScoreOwner(st, icon_score_address, owner) ==
    [st EXCEPT !.score_owner[icon_score_address] = owner]

\* IconScoreInfoMapper.delete_icon_score: forget the in-memory instance.
DeleteIconScore(st, icon_score_address) ==
    [st EXCEPT !.score_mapper = @ \ {icon_score_address}]

\* IconScoreInfoMapper.is_exist_db
IsExistDb(st, icon_score_address) == icon_score_address \in st.score_db

\* IconScoreInfoMapper.get_icon_score: a SCORE that is not mapped yet is
\* loaded, which creates its database when there is none.
GetIconScore(st, icon_score_address) ==
    IF icon_score_address \in st.score_mapper
    THEN st
    ELSE [st EXCEPT !.score_mapper = @ \cup {icon_score_address},
                    !.score_db = @ \cup {icon_score_address}]

\* os.makedirs(target_path, exist_ok=True)
Makedirs(st, icon_score_address) ==
    [st EXCEPT !.fs_dirs = @ \cup {icon_score_address}]

LinkExists(st, icon_score_address, height, index) ==
    \E l \in st.fs_links : /\ l.address = icon_score_address
                           /\ l.height = height
                           /\ l.index = index

\* os.symlink(content, target_path); FileExistsError is passed over.
Symlink(st, content, icon_score_address, height, index) ==
    IF LinkExists(st, icon_score_address, height, index)
    THEN st
    ELSE [st EXCEPT !.fs_links = @ \cup {[address |-> icon_score_address,
                                          height |-> height, index |-> index,
                                          target |-> content]}]

\* What one task did: the exception that left install / update (or none),
\* whether the owner was written, whether on_install was called, whether
\* it raised, and the context stack it ran with.
TaskResult(st, exc, owner_written, on_install, hook_raised, hook_stack) ==
    [st |-> st, exc |-> exc, owner_written |-> owner_written,
     on_install |-> on_install, hook_raised |-> hook_raised,
     hook_stack |-> hook_stack]

\* The thread that runs commit.
CommitThread == "t1"

\* The contexts on the stack of thread t, oldest first.
StackItems(stacks, t) ==
    IF StackOf(stacks, t).is_none THEN <<>> ELSE StackOf(stacks, t).items

\* self._put_context(context): the context becomes the current one.
PutContext(stacks, t, context) == PushContext(stacks, t, context).stacks

\* self._delete_context(context): the context that was current before is
\* current again.
DeleteContext(stacks, t, context) == PopContext(stacks, t).stacks

\* What on_init raises: an Exception, SystemExit, or nothing.
HookException(oc) ==
    CASE oc = "hook_error" -> "Exception"
      [] oc = "hook_exit" -> "SystemExit"
      [] OTHER -> NoException

\* Mutant: no except clause around on_init.
HookExceptionsPassed(exc) == FALSE

\* except Exception around on_init
CaughtByHookCall(exc) == exc = "Exception"

\* _call_on_init_of_score: on_init is called with the context put, inside
\* try / except Exception / finally, so an Exception it raises is logged and
\* not passed on, and the context is deleted in every case.
CallOnInitOfScore(st, context, icon_score_address, oc) ==
    LET during == PutContext(st.context_stack, CommitThread, context)
        raised == HookException(oc)
        after == DeleteContext(during, CommitThread, context)
    IN  TaskResult([st EXCEPT !.on_install_calls[icon_score_address] = @ + 1,
                              !.context_stack = after],
                   IF CaughtByHookCall(raised) THEN NoException ELSE raised,
                   TRUE, TRUE, raised # NoException,
                   StackItems(during, CommitThread))

\* Mutant: on_install is called for every install task.
AlwaysOnInstall(db_exist) == TRUE

\* if not db_exist: the hook is called only for a SCORE without a database.
NeedsOnInstall(db_exist) == ~db_exist

\* Mutant: the owner is recorded only for an address without a database.
InstallKeepsOwner(st, heap, context, icon_score_address, data, oc) ==
    LET content_type == heap[data].contentType
        content == heap[data].content
        st1 == IF content_type = "application/tbears"
               THEN Makedirs(DeleteIconScore(st, icon_score_address),
                             icon_score_address)
               ELSE st
        st2 == IF content_type = "application/tbears"
               THEN Symlink(st1, content, icon_score_address,
                            context.block.height, context.tx.index)
               ELSE st1
        db_exist == IsExistDb(st2, icon_score_address)
    IN  IF content_type = "application/tbears" /\ oc = "fs_error"
        THEN TaskResult(st1, "OSError", FALSE, FALSE, FALSE, <<>>)
        ELSE IF NeedsOnInstall(db_exist)
        THEN CallOnInitOfScore(
                 GetIconScore(PutScoreOwner(st2, icon_score_address,
                                            context.tx.origin),
                              icon_score_address),
                 context, icon_score_address, oc)
        ELSE TaskResult(GetIconScore(st2, icon_score_address), NoException,
                        FALSE, FALSE, FALSE, <<>>)

\* _install_on_commit
InstallOnCommit(st, heap, context, icon_score_address, data, oc) ==
    LET content_type == heap[data].contentType
        content == heap[data].content
        st1 == IF content_type = "application/tbears"
               THEN Makedirs(DeleteIconScore(st, icon_score_address),
                             icon_score_address)
               ELSE st
        st2 == IF content_type = "application/tbears"
               THEN Symlink(st1, content, icon_score_address,
                            context.block.height, context.tx.index)
               ELSE st1
        st3 == PutScoreOwner(st2, icon_score_address, context.tx.origin)
        db_exist == IsExistDb(st3, icon_score_address)
        st4 == GetIconScore(st3, icon_score_address)
    IN  IF content_type = "application/tbears" /\ oc = "fs_error"
        THEN TaskResult(st1, "OSError", FALSE, FALSE, FALSE, <<>>)
        ELSE IF NeedsOnInstall(db_exist)
        THEN CallOnInitOfScore(st4, context, icon_score_address, oc)
        ELSE TaskResult(st4, NoException, TRUE, FALSE, FALSE, <<>>)

\* Mutant: an update task is skipped without an error.
UpdateSkipped(st, heap, context, icon_score_address, data) ==
    TaskResult(st, NoException, FALSE, FALSE, FALSE, <<>>)

UpdateOnCommit(st, heap, context, icon_score_address, data) ==
    TaskResult(st, "NotImplementedError", FALSE, FALSE, FALSE, <<>>)

\* The exceptions a task can raise; all of them are BaseExceptions.
TaskExceptions == {"OSError", "NotImplementedError", "SystemExit"}

\* Mutant: the loop of commit catches OSError only.
CaughtOnlyOSError(exc) == exc = "OSError"

\* except BaseException in the loop of commit
CaughtByCommit(exc) == exc \in TaskExceptions

\* The log entry of one task: what it was and what processing it did.
LogEntry(st, task, r) ==
    [task |-> task, exc |-> r.exc,
     owner_written |-> r.owner_written,
     on_install |-> r.on_install,
     hook_raised |-> r.hook_raised,
     hook_stack |-> r.hook_stack,
     stack_before |-> StackItems(st.context_stack, CommitThread),
     stack_after |-> StackItems(r.st.context_stack, CommitThread),
     db_existed |-> IsExistDb(st, task.icon_score_address),
     owner_after |-> r.st.score_owner[task.icon_score_address],
     changed |-> r.st # st]

\* The dispatch of commit on the data type of a task.
Dispatch(st, heap, ctx, task, oc) ==
    IF task.data_type = "install"
    THEN InstallOnCommit(st, heap, ctx, task.icon_score_address, task.data, oc)
    ELSE IF task.data_type = "update"
    THEN UpdateOnCommit(st, heap, ctx, task.icon_score_address, task.data)
    ELSE TaskResult(st, NoException, FALSE, FALSE, FALSE, <<>>)

\* Mutant: the task runs with the context as commit received it.
KeepCommitContext(context, task) == context

\* The context as commit leaves it for a task: block, tx and msg are the
\* task's.
RestoreContext(context, task) ==
    [context EXCEPT !.block = task.block, !.tx = task.tx, !.msg = task.msg]

\* One iteration of the loop of commit: the task's block, tx and msg are put
\* into the context, the task is dispatched on its data type, and whatever
\* it raises is caught (except BaseException) and logged.
CommitTask(acc, heap, context, task, oc) ==
    LET r == Dispatch(acc.st, heap, RestoreContext(context, task), task, oc)
    IN  IF acc.raised # NoException
        THEN acc
        ELSE [st |-> r.st,
              log |-> Append(acc.log, LogEntry(acc.st, task, r)),
              raised |-> IF r.exc # NoException /\ ~CaughtByCommit(r.exc)
                         THEN r.exc
                         ELSE NoException]

\* Mutant: the install tasks are processed before the others.
InstallsFirst(tasks) ==
    SelectSeq(tasks, LAMBDA t : t.data_type = "install")
        \o SelectSeq(tasks, LAMBDA t : t.data_type # "install")

\* The order in which commit visits the queue: for task in self._deferred_tasks
CommitOrder(tasks) == tasks

RECURSIVE CommitLoop(_, _, _, _, _, _)
CommitLoop(acc, heap, context, tasks, outcomes, i) ==
    IF i > Len(tasks)
    THEN acc
    ELSE CommitLoop(CommitTask(acc, heap, context, tasks[i], outcomes[i]),
                    heap, context, tasks, outcomes, i + 1)

\* Mutant: commit removes only the first task.
PopFirstTask(tasks) == IF tasks = <<>> THEN <<>> ELSE Tail(tasks)

\* self._deferred_tasks.clear() at the end of commit
ClearAfterCommit(tasks) == <<>>

\* The outcomes that the collaborators called for a task can have: only an
\* install task calls any, and only an application/tbears install calls
\* symlink.
TaskOutcomes(heap, task) ==
    IF task.data_type # "install"
    THEN {"ok"}
    ELSE IF heap[task.data].contentType = "application/tbears"
    THEN Outcomes
    ELSE Outcomes \ {"fs_error"}

\* The outcomes of the collaborators over one run of the loop of commit.
CommitOutcomes(heap, tasks) ==
    {f \in [1..Len(tasks) -> Outcomes] :
        \A i \in 1..Len(tasks) : f[i] \in TaskOutcomes(heap, tasks[i])}

Commit(e, context) ==
    /\ e \in DOMAIN flags
    /\ \E r \in {CommitLoop([st |-> Store, log |-> <<>>, raised |-> NoException],
                            dicts, context, CommitOrder(deferred_tasks[e]),
                            outcomes, 1) :
                    outcomes \in CommitOutcomes(dicts,
                                                CommitOrder(deferred_tasks[e]))} :
          /\ score_owner' = r.st.score_owner
          /\ fs_dirs' = r.st.fs_dirs
          /\ fs_links' = r.st.fs_links
          /\ score_mapper' = r.st.score_mapper
          /\ score_db' = r.st.score_db
          /\ on_install_calls' = r.st.on_install_calls
          /\ context_stack' = r.st.context_stack
          /\ last' = Call("commit", e, NoRequest, r.raised, r.log, <<>>)
          /\ deferred_tasks' =
                [deferred_tasks EXCEPT
                    ![e] = IF r.raised = NoException
                           THEN ClearAfterCommit(@)
                           ELSE @]
    /\ UNCHANGED <<SUPPORT_DATA_TYPES, flags, dicts, ctx_result, prepVars, rollbackVars, delegatorVars>>

\* Mutant: rollback leaves the queue as it is.
KeepQueueOnRollback(tasks) == tasks

\* self._deferred_tasks.clear() of rollback
ClearOnRollback(tasks) == <<>>

Rollback(e) ==
    /\ e \in DOMAIN flags
    /\ deferred_tasks' = [deferred_tasks EXCEPT ![e] = ClearOnRollback(@)]
    /\ last' = Call("rollback", e, NoRequest, NoException, <<>>,
                     deferred_tasks[e])
    /\ UNCHANGED <<SUPPORT_DATA_TYPES, flags, dicts, storeVars, contextVars, prepVars, rollbackVars, delegatorVars>>

(***************************************************************************)
(* Calls of ContextContainer by the threads                                *)
(***************************************************************************)
\* The last ContextContainer call: the method, the calling thread, the
\* context passed in, and what came back.
CtxCall(op, t, arg, r) ==
    [op |-> op, thread |-> t, arg |-> arg, ret |-> r.ret, exc |-> r.exc]

InitContext ==
    /\ context_stack = [t \in Threads |-> NoStack]
    /\ ctx_result = CtxCall("none", "t1", NoContext,
                            CtxOutcome(context_stack, NoContext, NoException))

ContextFrame == UNCHANGED <<engineVars, storeVars, last, prepVars, rollbackVars, delegatorVars>>

Push(t, context) ==
    /\ GetContextStackSize(context_stack, t) < MaxStack
    /\ \E r \in {PushContext(context_stack, t, context)} :
          /\ context_stack' = r.stacks
          /\ ctx_result' = CtxCall("push", t, context, r)
    /\ ContextFrame

Pop(t) ==
    /\ \E r \in {PopContext(context_stack, t)} :
          /\ context_stack' = r.stacks
          /\ ctx_result' = CtxCall("pop", t, NoContext, r)
    /\ ContextFrame

Get(t) ==
    /\ \E r \in {GetContext(context_stack, t)} :
          /\ context_stack' = r.stacks
          /\ ctx_result' = CtxCall("get", t, NoContext, r)
    /\ ContextFrame

Clear(t) ==
    /\ \E r \in {ClearContext(context_stack, t)} :
          /\ context_stack' = r.stacks
          /\ ctx_result' = CtxCall("clear", t, NoContext, r)
    /\ ContextFrame

NextContext ==
    \/ \E t \in Threads, c \in Contexts : Push(t, c)
    \/ \E t \in Threads : Pop(t)
    \/ \E t \in Threads : Get(t)
    \/ \E t \in Threads : Clear(t)

(***************************************************************************)
(* prep.Storage (prep/storage.py)                                          *)
(***************************************************************************)
\* Optional values: None and a value that is not None.
Nothing == <<>>
Some(v) == <<v>>

\* The registration fees that open and put_prep_registration_fee are given.
Fees == {0, 7}

PRepAddresses == {"hx1", "hx2"}

\* P-Rep records: the address and the rest of the record.
PReps == [address : PRepAddresses, status : {"active", "unregistered"}]

\* context.revision of the calls.
Revisions == {"rev_a", "rev_b"}

\* Terms: sequence number, start and end height.
Terms == {[sequence |-> 0, start_block_height |-> 1, end_block_height |-> 2],
          [sequence |-> 1, start_block_height |-> 3, end_block_height |-> 4]}

PREFIX == "prep"
PREP_REGISTRATION_FEE_KEY == <<PREFIX, "prf">>
TermKey0 == <<PREFIX, "term0">>
TermKey1 == <<PREFIX, "term1">>

\* PRep.make_key: the record marker and the address.
MakeKey(address) == <<"prep0x00", address>>

DbKeys ==
    {PREP_REGISTRATION_FEE_KEY, TermKey0, TermKey1}
        \cup {MakeKey(a) : a \in PRepAddresses}

\* What self._db.get returns: None for a key that is not stored, else bytes.
Absent == [present |-> FALSE, bytes |-> <<>>]
Stored(bytes) == [present |-> TRUE, bytes |-> bytes]

DbGet(d, key) == d[key]
DbPut(d, key, bytes) == [d EXCEPT ![key] = Stored(bytes)]
DbDelete(d, key) == [d EXCEPT ![key] = Absent]

\* if value: None and b'' are false.
Truthy(value) == value.present /\ Len(value.bytes) > 0

\* MsgPackForDB.dumps / loads
Dumps(data) == <<"msgpack", data>>
Loads(bytes) == bytes[2]

\* The schema version that PRep.to_bytes writes at a revision.
SchemaVersion(revision) == IF revision = "rev_a" THEN 0 ELSE 1

\* PRep.to_bytes / PRep.from_bytes
PRepToBytes(prep, revision) ==
    <<"prep", SchemaVersion(revision), prep.address, prep.status>>
PRepFromBytes(bytes) == [address |-> bytes[3], status |-> bytes[4]]

\* Term.to_list / Term.from_list
TermToList(term) ==
    <<term.sequence, term.start_block_height, term.end_block_height>>
TermFromList(data) ==
    [sequence |-> data[1], start_block_height |-> data[2],
     end_block_height |-> data[3]]

InvalidParamsException == "InvalidParamsException"
AssertionError == "AssertionError"

\* What a Storage call leaves: the database, the cached fee, the value
\* returned and the exception raised.
StorageOutcome(d, fee, ret, exc) ==
    [db |-> d, fee |-> fee, ret |-> ret, exc |-> exc]

\* Storage.get_prep_registration_fee
GetPrepRegistrationFee(d, fee) ==
    LET value == DbGet(d, PREP_REGISTRATION_FEE_KEY)
    IN  IF Truthy(value)
        THEN LET data == Loads(value.bytes)
                 version == data[1]
             IN  IF version = 0
                 THEN StorageOutcome(d, fee, Some(data[2]), NoException)
                 ELSE StorageOutcome(d, fee, Nothing, AssertionError)
        ELSE StorageOutcome(d, fee, Nothing, NoException)

\* Storage.put_prep_registration_fee
PutPrepRegistrationFee(d, fee, prep_reg_fee) ==
    StorageOutcome(DbPut(d, PREP_REGISTRATION_FEE_KEY, Dumps(<<0, prep_reg_fee>>)),
                   fee, Nothing, NoException)

\* Mutant: open writes and caches its default whatever is persisted.
OpenAlwaysWrites(d, fee, default_fee) ==
    StorageOutcome(PutPrepRegistrationFee(d, fee, default_fee).db,
                   Some(default_fee), Nothing, NoException)

\* Storage.open
Open(d, fee, default_fee) ==
    LET from_db == GetPrepRegistrationFee(d, fee)
    IN  IF from_db.exc # NoException
        THEN from_db
        ELSE IF from_db.ret = Nothing
        THEN StorageOutcome(PutPrepRegistrationFee(d, fee, default_fee).db,
                            Some(default_fee), Nothing, NoException)
        ELSE StorageOutcome(d, from_db.ret, Nothing, NoException)

\* Mutant: get_prep returns None for an address without a record.
GetPrepOrNone(d, fee, address) ==
    LET value == DbGet(d, MakeKey(address))
    IN  IF ~value.present
        THEN StorageOutcome(d, fee, Nothing, NoException)
        ELSE StorageOutcome(d, fee, Some(PRepFromBytes(value.bytes)),
                            NoException)

\* Storage.get_prep
GetPrep(d, fee, address) ==
    LET value == DbGet(d, MakeKey(address))
    IN  IF ~value.present
        THEN StorageOutcome(d, fee, Nothing, InvalidParamsException)
        ELSE LET prep == PRepFromBytes(value.bytes)
             IN  IF address = prep.address
                 THEN StorageOutcome(d, fee, Some(prep), NoException)
                 ELSE StorageOutcome(d, fee, Nothing, AssertionError)

\* Storage.put_prep
PutPrep(d, fee, prep, revision) ==
    StorageOutcome(DbPut(d, MakeKey(prep.address), PRepToBytes(prep, revision)),
                   fee, Nothing, NoException)

\* Mutant: delete_prep removes every P-Rep record.
DeleteEveryPrep(d, fee, address) ==
    StorageOutcome([k \in DOMAIN d |->
                       IF k \in {MakeKey(a) : a \in PRepAddresses}
                       THEN Absent ELSE d[k]],
                   fee, Nothing, NoException)

\* Storage.delete_prep
DeletePrep(d, fee, address) ==
    StorageOutcome(DbDelete(d, MakeKey(address)), fee, Nothing, NoException)

\* Mutant: a term that is not stored is an error.
GetTermStrict(d, key) ==
    LET value == DbGet(d, key)
    IN  IF Truthy(value)
        THEN [ret |-> Some(TermFromList(Loads(value.bytes))),
              exc |-> NoException]
        ELSE [ret |-> Nothing, exc |-> InvalidParamsException]

\* Storage._get_term
GetTerm(d, key) ==
    LET value == DbGet(d, key)
    IN  IF Truthy(value)
        THEN [ret |-> Some(TermFromList(Loads(value.bytes))),
              exc |-> NoException]
        ELSE [ret |-> Nothing, exc |-> NoException]

\* Storage.get_terms
GetTerms(d, fee) ==
    LET prev_term == GetTerm(d, TermKey0)
        term == GetTerm(d, TermKey1)
    IN  IF prev_term.exc # NoException
        THEN StorageOutcome(d, fee, Nothing, prev_term.exc)
        ELSE IF term.exc # NoException
        THEN StorageOutcome(d, fee, Nothing, term.exc)
        ELSE StorageOutcome(d, fee, <<prev_term.ret, term.ret>>, NoException)

\* Storage._put_term
PutTerm(d, key, term) == DbPut(d, key, Dumps(TermToList(term)))

\* if term: a Term object is true, None is false.
TermIsTrue(term) == term # Nothing

\* Mutant: both slots are written, a slot without a term is removed.
PutTermsBoth(d, fee, prev_term, term) ==
    LET d0 == IF TermIsTrue(prev_term)
              THEN PutTerm(d, TermKey0, prev_term[1])
              ELSE DbDelete(d, TermKey0)
        d1 == IF TermIsTrue(term)
              THEN PutTerm(d0, TermKey1, term[1])
              ELSE DbDelete(d0, TermKey1)
    IN  StorageOutcome(d1, fee, Nothing, NoException)

\* Storage.put_terms
PutTerms(d, fee, prev_term, term) ==
    LET d0 == IF TermIsTrue(prev_term)
              THEN PutTerm(d, TermKey0, prev_term[1])
              ELSE d
        d1 == IF TermIsTrue(term)
              THEN PutTerm(d0, TermKey1, term[1])
              ELSE d0
    IN  StorageOutcome(d1, fee, Nothing, NoException)

\* The last Storage call: the method, its arguments, and what came back.
StorageCall(op, args, r) ==
    [op |-> op, args |-> args, ret |-> r.ret, exc |-> r.exc]

InitStorage ==
    /\ prep_db = [k \in DbKeys |-> Absent]
    /\ prep_registration_fee = Nothing
    /\ prep_result = StorageCall("init", <<>>,
                                 StorageOutcome(prep_db, Nothing, Nothing,
                                                NoException))
    /\ first_fee = Nothing
    /\ fee_overwritten = FALSE
    /\ last_put = [a \in PRepAddresses |-> Nothing]
    /\ ever_put = {}

StorageFrame ==
    UNCHANGED <<engineVars, storeVars, last, contextVars, rollbackVars, delegatorVars>>

\* Storage.__init__: another Storage object on the same database.
StorageInit ==
    /\ prep_registration_fee' = Nothing
    /\ prep_result' = StorageCall("init", <<>>,
                                  StorageOutcome(prep_db, Nothing, Nothing,
                                                 NoException))
    /\ UNCHANGED <<prep_db, first_fee, fee_overwritten, last_put, ever_put>>
    /\ StorageFrame

StorageOpen(default_fee) ==
    /\ \E r \in {Open(prep_db, prep_registration_fee, default_fee)} :
          /\ prep_db' = r.db
          /\ prep_registration_fee' = r.fee
          /\ prep_result' = StorageCall("open", <<default_fee>>, r)
    /\ first_fee' =
          IF GetPrepRegistrationFee(prep_db, prep_registration_fee).ret = Nothing
          THEN Some(default_fee)
          ELSE first_fee
    /\ UNCHANGED <<fee_overwritten, last_put, ever_put>>
    /\ StorageFrame

StorageGetPrepRegistrationFee ==
    /\ \E r \in {GetPrepRegistrationFee(prep_db, prep_registration_fee)} :
          /\ prep_db' = r.db
          /\ prep_registration_fee' = r.fee
          /\ prep_result' = StorageCall("get_prep_registration_fee", <<>>, r)
    /\ UNCHANGED <<first_fee, fee_overwritten, last_put, ever_put>>
    /\ StorageFrame

StoragePutPrepRegistrationFee(prep_reg_fee) ==
    /\ \E r \in {PutPrepRegistrationFee(prep_db, prep_registration_fee,
                                        prep_reg_fee)} :
          /\ prep_db' = r.db
          /\ prep_registration_fee' = r.fee
          /\ prep_result' = StorageCall("put_prep_registration_fee",
                                        <<prep_reg_fee>>, r)
    /\ fee_overwritten' = TRUE
    /\ UNCHANGED <<first_fee, last_put, ever_put>>
    /\ StorageFrame

StorageGetPrep(address) ==
    /\ \E r \in {GetPrep(prep_db, prep_registration_fee, address)} :
          /\ prep_db' = r.db
          /\ prep_registration_fee' = r.fee
          /\ prep_result' = StorageCall("get_prep", <<address>>, r)
    /\ UNCHANGED <<first_fee, fee_overwritten, last_put, ever_put>>
    /\ StorageFrame

StoragePutPrep(prep, revision) ==
    /\ \E r \in {PutPrep(prep_db, prep_registration_fee, prep, revision)} :
          /\ prep_db' = r.db
          /\ prep_registration_fee' = r.fee
          /\ prep_result' = StorageCall("put_prep", <<prep, revision>>, r)
    /\ last_put' = [last_put EXCEPT ![prep.address] = Some(prep)]
    /\ ever_put' = ever_put \cup {prep.address}
    /\ UNCHANGED <<first_fee, fee_overwritten>>
    /\ StorageFrame

StorageDeletePrep(address) ==
    /\ \E r \in {DeletePrep(prep_db, prep_registration_fee, address)} :
          /\ prep_db' = r.db
          /\ prep_registration_fee' = r.fee
          /\ prep_result' = StorageCall("delete_prep", <<address>>, r)
    /\ last_put' = [last_put EXCEPT ![address] = Nothing]
    /\ UNCHANGED <<first_fee, fee_overwritten, ever_put>>
    /\ StorageFrame

StorageGetTerms ==
    /\ \E r \in {GetTerms(prep_db, prep_registration_fee)} :
          /\ prep_db' = r.db
          /\ prep_registration_fee' = r.fee
          /\ prep_result' = StorageCall("get_terms", <<>>, r)
    /\ UNCHANGED <<first_fee, fee_overwritten, last_put, ever_put>>
    /\ StorageFrame

StoragePutTerms(prev_term, term) ==
    /\ \E r \in {PutTerms(prep_db, prep_registration_fee, prev_term, term)} :
          /\ prep_db' = r.db
          /\ prep_registration_fee' = r.fee
          /\ prep_result' = StorageCall("put_terms", <<prev_term, term>>, r)
    /\ UNCHANGED <<first_fee, fee_overwritten, last_put, ever_put>>
    /\ StorageFrame

OptionalTerms == {Nothing} \cup {Some(t) : t \in Terms}

NextStorage ==
    \/ StorageInit
    \/ \E f \in Fees : StorageOpen(f)
    \/ StorageGetPrepRegistrationFee
    \/ \E f \in Fees : StoragePutPrepRegistrationFee(f)
    \/ \E a \in PRepAddresses : StorageGetPrep(a)
    \/ \E p \in PReps, rev \in Revisions : StoragePutPrep(p, rev)
    \/ \E a \in PRepAddresses : StorageDeletePrep(a)
    \/ StorageGetTerms
    \/ \E p \in OptionalTerms, t \in OptionalTerms : StoragePutTerms(p, t)

(***************************************************************************)
(* RollbackManager (rollback/rollback_manager.py)                          *)
(***************************************************************************)
\* The heights that have a backup file name, and the heights run is asked
\* to roll back to.
Heights == {0, 1}
TargetHeights == {-1, 0, 1}

\* make_block_produce_info_key and the key of the other reward-calc data.
MakeBlockProduceInfoKey(block_height) == <<"BP", block_height>>
RcDataKey == <<"data", 0>>
RcKeys == {RcDataKey} \cup {MakeBlockProduceInfoKey(h) : h \in Heights}

StateKeys == {"sk1", "sk2"}

\* A key without a record.
NoRecord == ""

\* A directory of rc_data_path: absent, or a database with its records.
NoDir == [exists |-> FALSE, records |-> [k \in RcKeys |-> NoRecord]]
Dir(records) == [exists |-> TRUE, records |-> records]

\* The reward-calc databases that can be on disk when run is called.
CurrentDb == Dir([k \in RcKeys |-> IF k = RcDataKey THEN "rc_cur" ELSE "bp_cur"])
IissDb == Dir([k \in RcKeys |-> IF k = RcDataKey THEN "rc_iiss" ELSE "bp_iiss"])
StandbyDb == Dir([k \in RcKeys |-> IF k = RcDataKey THEN "rc_standby" ELSE NoRecord])

\* WALBackupState.CALC_PERIOD_END_BLOCK, and the state words of the files.
CALC_PERIOD_END_BLOCK == 1
BackupStates == {0, 1}

\* The batches a backup file of a block holds: the reward-calc batch and
\* the state batch, by the tag of their database.
RcBatch(block_height) ==
    [db_type |-> "rc",
     writes |-> [k \in {RcDataKey} |->
                    IF block_height = 0 THEN "rc_at_0" ELSE "rc_at_1"]]
StateBatch(block_height) ==
    [db_type |-> "state",
     writes |-> [k \in {"sk1"} |->
                    IF block_height = 0 THEN "s_at_0" ELSE "s_at_1"]]

\* The numbers of batches a backup file can hold.
LogCounts == {1, 2, 3}

\* A backup file: the block it was written for, the state word and the
\* batches.
NoFile == [exists |-> FALSE, height |-> 0, state |-> 0, batches |-> <<>>]
BackupFile(block_height, state, log_count) ==
    [exists |-> TRUE, height |-> block_height, state |-> state,
     batches |-> SubSeq(<<RcBatch(block_height), StateBatch(block_height),
                          StateBatch(block_height)>>, 1, log_count)]

\* The files that can be stored under the name of a height: files of that
\* height and files whose embedded height is another one.
BackupFiles ==
    {BackupFile(h, s, n) : h \in Heights, s \in BackupStates, n \in LogCounts}

\* get_backup_filename / _get_backup_file_path: one path per height.
GetBackupFilePath(block_height) == block_height

\* Mutant: every path is taken for a file.
AnyPathIsFile(files, path) == TRUE

\* os.path.isfile(path)
IsFile(files, path) == path \in DOMAIN files /\ files[path].exists

\* WriteAheadLogReader: log_count and get_iterator
LogCount(reader) == Len(reader.batches)
GetIterator(reader, db_type) ==
    LET i == CHOOSE j \in DOMAIN reader.batches :
                 reader.batches[j].db_type = db_type
    IN  reader.batches[i].writes

\* Mutant: no block is a calc period end block.
NeverCalcPeriodEndBlock(state) == FALSE

\* bool(WALBackupState(reader.state) & WALBackupState.CALC_PERIOD_END_BLOCK)
IsCalcPeriodEndBlock(state) == BitAnd(state, CALC_PERIOD_END_BLOCK) # 0

\* KeyValueDatabase.write_batch: every write of the batch, or none.
WriteBatch(records, writes) ==
    [k \in DOMAIN records |->
        IF k \in DOMAIN writes THEN writes[k] ELSE records[k]]

\* The calls of run that can fail in the file system or in a database.
Faults == {"none", "reader_open", "rmtree", "rename", "from_path",
           "create_current_db", "rc_write_batch", "state_write_batch",
           "remove_not_found", "remove_error", "crash"}

\* What run has done so far: the disk and the state store, the exception on
\* its way out, the steps performed, and the call that failed.
Progress(w, exc, steps, failed) ==
    [w |-> w, exc |-> exc, steps |-> steps, failed |-> failed]
Start(w) == Progress(w, NoException, <<>>, "")
Raise(s, exc, failed) == Progress(s.w, exc, s.steps, failed)
Done(s, w, step) == Progress(w, NoException, Append(s.steps, step), "")

World == [icx_db |-> icx_db, rc_dirs |-> rc_dirs, files |-> backup_files]

DatabaseException == "DatabaseException"

\* RewardCalcStorage.scan_rc_db: the path of each database, "" if absent.
ScanRcDb(dirs, name) == IF dirs[name].exists THEN name ELSE ""

\* The process stops between two calls: nothing more is executed, neither
\* an except clause nor a finally clause.
ProcessCrash == "ProcessCrash"
Crash(s, fault) ==
    IF s.exc = NoException /\ fault = "crash"
    THEN Raise(s, ProcessCrash, "crash")
    ELSE s

\* Mutant: the directory is left on disk.
RmtreeKeepsDirectory(s, path, fault) ==
    IF s.exc # NoException THEN s
    ELSE IF fault = "rmtree" THEN Raise(s, "OSError", "rmtree")
    ELSE Done(s, s.w, "rmtree")

\* shutil.rmtree(current_rc_db_path)
Rmtree(s, path, fault) ==
    IF s.exc # NoException THEN s
    ELSE IF fault = "rmtree" THEN Raise(s, "OSError", "rmtree")
    ELSE Done(s, [s.w EXCEPT !.rc_dirs[path] = NoDir], "rmtree")

\* Mutant: the database is copied, the source path stays.
CopyRcDb(s, src_path, dst_path, fault) ==
    IF s.exc # NoException THEN s
    ELSE IF dst_path = "" THEN Raise(s, "FileNotFoundError", "")
    ELSE IF fault = "rename" \/ s.w.rc_dirs[dst_path].exists
    THEN Raise(s, "OSError", "rename")
    ELSE Done(s, [s.w EXCEPT !.rc_dirs[dst_path] = s.w.rc_dirs[src_path]],
              "rename")

\* _rename_rc_db: os.rename(src_path, dst_path)
RenameRcDb(s, src_path, dst_path, fault) ==
    IF s.exc # NoException THEN s
    ELSE IF dst_path = "" THEN Raise(s, "FileNotFoundError", "")
    ELSE IF fault = "rename" \/ s.w.rc_dirs[dst_path].exists
    THEN Raise(s, "OSError", "rename")
    ELSE Done(s, [s.w EXCEPT !.rc_dirs[dst_path] = s.w.rc_dirs[src_path],
                             !.rc_dirs[src_path] = NoDir], "rename")

\* Mutant: the block-production-info records of every height are removed.
RemoveEveryBlockProduceInfo(s, db_path, block_height, fault) ==
    IF s.exc # NoException THEN s
    ELSE IF fault = "from_path" \/ db_path = ""
    THEN Raise(s, DatabaseException, "from_path")
    ELSE Done(s, [s.w EXCEPT
                    !.rc_dirs[db_path].records =
                        [k \in RcKeys |-> IF k = RcDataKey THEN @[k]
                                          ELSE NoRecord]],
              "remove_block_produce_info")

\* _remove_block_produce_info
RemoveBlockProduceInfo(s, db_path, block_height, fault) ==
    IF s.exc # NoException THEN s
    ELSE IF fault = "from_path" \/ db_path = ""
    THEN Raise(s, DatabaseException, "from_path")
    ELSE Done(s, [s.w EXCEPT
                    !.rc_dirs[db_path].records[
                        MakeBlockProduceInfoKey(block_height)] = NoRecord],
              "remove_block_produce_info")

\* Mutant: missing databases are passed over.
MissingRcDbIgnored(s, reader, fault) ==
    LET current_rc_db_path == ScanRcDb(s.w.rc_dirs, "current")
        iiss_rc_db_path == ScanRcDb(s.w.rc_dirs, "iiss")
    IN  IF ScanRcDb(s.w.rc_dirs, "standby") # ""
        THEN Raise(s, AssertionError, "")
        ELSE IF current_rc_db_path # "" /\ iiss_rc_db_path # ""
        THEN RemoveBlockProduceInfo(
                 RenameRcDb(Rmtree(s, current_rc_db_path, fault),
                            iiss_rc_db_path, current_rc_db_path, fault),
                 current_rc_db_path, reader.height, fault)
        ELSE IF current_rc_db_path # ""
        THEN RemoveBlockProduceInfo(s, current_rc_db_path, reader.height,
                                    fault)
        ELSE IF iiss_rc_db_path # ""
        THEN RenameRcDb(s, iiss_rc_db_path, current_rc_db_path, fault)
        ELSE Done(s, s.w, "remove_block_produce_info")

\* Mutant: a standby database is not looked at.
StandbyNotChecked(standby_rc_db_path) == TRUE

\* assert standby_rc_db_path == ""
StandbyIsAbsent(standby_rc_db_path) == standby_rc_db_path = ""

\* _rollback_rc_db_on_end_block
RollbackRcDbOnEndBlock(s, reader, fault) ==
    LET current_rc_db_path == ScanRcDb(s.w.rc_dirs, "current")
        standby_rc_db_path == ScanRcDb(s.w.rc_dirs, "standby")
        iiss_rc_db_path == ScanRcDb(s.w.rc_dirs, "iiss")
        current_rc_db_exists == current_rc_db_path # ""
        iiss_rc_db_exists == iiss_rc_db_path # ""
        resolved ==
            IF current_rc_db_exists
            THEN IF iiss_rc_db_exists
                 THEN RenameRcDb(
                          Crash(Rmtree(s, current_rc_db_path, fault), fault),
                          iiss_rc_db_path, current_rc_db_path, fault)
                 ELSE s
            ELSE IF iiss_rc_db_exists
                 THEN RenameRcDb(s, iiss_rc_db_path, current_rc_db_path, fault)
                 ELSE Raise(s, DatabaseException, "")
    IN  IF ~StandbyIsAbsent(standby_rc_db_path)
        THEN Raise(s, AssertionError, "")
        ELSE RemoveBlockProduceInfo(resolved, current_rc_db_path,
                                    reader.height, fault)

\* RewardCalcStorage.create_current_db: the current database, created when
\* it is missing.
CreateCurrentDb(s, fault) ==
    IF s.exc # NoException THEN s
    ELSE IF fault = "create_current_db"
    THEN Raise(s, DatabaseException, "create_current_db")
    ELSE IF s.w.rc_dirs["current"].exists
    THEN s
    ELSE Progress([s.w EXCEPT !.rc_dirs["current"] =
                                   Dir([k \in RcKeys |-> NoRecord])],
                  NoException, s.steps, "")

\* _rollback_rc_db
RollbackRcDb(s, reader, is_calc_period_end_block, fault) ==
    IF s.exc # NoException THEN s
    ELSE IF is_calc_period_end_block
    THEN RollbackRcDbOnEndBlock(s, reader, fault)
    ELSE LET db == CreateCurrentDb(s, fault)
         IN  IF db.exc # NoException THEN db
             ELSE IF fault = "rc_write_batch"
             THEN Raise(db, DatabaseException, "rc_write_batch")
             ELSE Done(db,
                       [db.w EXCEPT !.rc_dirs["current"].records =
                           WriteBatch(@, GetIterator(reader, "rc"))],
                       "rc_write_batch")

\* Mutant: the state batch is not replayed.
StateDbNotReplayed(s, reader, fault) == s

\* _rollback_state_db
RollbackStateDb(s, reader, fault) ==
    IF s.exc # NoException THEN s
    ELSE IF fault = "state_write_batch"
    THEN Raise(s, DatabaseException, "state_write_batch")
    ELSE Done(s, [s.w EXCEPT !.icx_db =
                     WriteBatch(@, GetIterator(reader, "state"))],
              "state_write_batch")

\* Mutant: the file is reported as removed and stays on disk.
RemoveLeavesFile(s, path, fault) ==
    IF fault = "remove_not_found"
    THEN Progress(s.w, NoException, s.steps, "remove_not_found")
    ELSE IF fault = "remove_error"
    THEN Progress(s.w, NoException, s.steps, "remove_error")
    ELSE Done(s, s.w, "remove")

\* Mutant: a failing deletion raises.
RemoveBackupFileRaises(s, path, fault) ==
    IF fault \in {"remove_not_found", "remove_error"}
    THEN Raise(s, "OSError", fault)
    ELSE Done(s, [s.w EXCEPT !.files[path] = NoFile], "remove")

\* _remove_backup_file: FileNotFoundError is passed over, any other
\* exception is logged and dropped.
RemoveBackupFile(s, path, fault) ==
    IF fault = "remove_not_found"
    THEN Progress([s.w EXCEPT !.files[path] = NoFile], NoException, s.steps,
                  "remove_not_found")
    ELSE IF fault = "remove_error"
    THEN Progress(s.w, NoException, s.steps, "remove_error")
    ELSE Done(s, [s.w EXCEPT !.files[path] = NoFile], "remove")

\* What run leaves: the disk and the state store, the pair returned, the
\* exception raised, the steps performed and the call that failed.
NoReturn == <<>>
RunOutcome(s, ret) ==
    [w |-> s.w, ret |-> ret, exc |-> s.exc, steps |-> s.steps,
     failed |-> s.failed]

\* Mutant: the embedded height is not compared with the target height.
AnyHeightMatches(reader, block_height) == TRUE

\* assert reader.block.height == block_height
HeightMatches(reader, block_height) == reader.height = block_height

\* Mutant: two batches or more are replayed.
AtLeastTwoBatches(reader) == LogCount(reader) >= 2

\* if reader.log_count == 2
HasBothBatches(reader) == LogCount(reader) = 2

\* RollbackManager.run
Run(w, block_height, fault) ==
    IF block_height < 0
    THEN RunOutcome(Start(w), <<-1, FALSE>>)
    ELSE IF ~IsFile(w.files, GetBackupFilePath(block_height))
    THEN RunOutcome(Start(w), <<-1, FALSE>>)
    ELSE IF fault = "reader_open"
    THEN RunOutcome(Raise(Start(w), "OSError", "reader_open"), NoReturn)
    ELSE
        LET path == GetBackupFilePath(block_height)
            reader == w.files[path]
            is_calc_period_end_block == IsCalcPeriodEndBlock(reader.state)
            replayed ==
                IF HasBothBatches(reader)
                THEN RollbackStateDb(
                         RollbackRcDb(Start(w), reader,
                                      is_calc_period_end_block, fault),
                         reader, fault)
                ELSE Start(w)
        IN  IF ~HeightMatches(reader, block_height)
            THEN RunOutcome(Raise(Start(w), AssertionError, ""), NoReturn)
            ELSE IF replayed.exc # NoException
            THEN RunOutcome(replayed, NoReturn)
            ELSE RunOutcome(RemoveBackupFile(replayed, path, fault),
                            <<reader.height, is_calc_period_end_block>>)

RunCall(block_height, r) ==
    [op |-> "run", block_height |-> block_height, ret |-> r.ret,
     exc |-> r.exc, steps |-> r.steps, failed |-> r.failed]

\* A disk with the current database only, no backup file.
InitRollback ==
    /\ icx_db = [k \in StateKeys |-> "s_new"]
    /\ rc_dirs = [n \in {"current", "standby", "iiss"} |->
                     IF n = "current" THEN CurrentDb ELSE NoDir]
    /\ backup_files = [h \in Heights |-> NoFile]
    /\ rb_result = [op |-> "init", block_height |-> 0, ret |-> NoReturn,
                    exc |-> NoException, steps |-> <<>>, failed |-> ""]

\* The disks that run can find: each reward-calc database present or not,
\* and under each height no backup file or any backup file.
InitDisk ==
    /\ icx_db = [k \in StateKeys |-> "s_new"]
    /\ rc_dirs \in [current : {NoDir, CurrentDb}, standby : {NoDir, StandbyDb},
                    iiss : {NoDir, IissDb}]
    /\ backup_files \in [Heights -> {NoFile} \cup BackupFiles]
    /\ rb_result = [op |-> "init", block_height |-> 0, ret |-> NoReturn,
                    exc |-> NoException, steps |-> <<>>, failed |-> ""]

RollbackManagerRun(block_height) ==
    /\ \E r \in {Run(World, block_height, fault) : fault \in Faults} :
          /\ icx_db' = r.w.icx_db
          /\ rc_dirs' = r.w.rc_dirs
          /\ backup_files' = r.w.files
          /\ rb_result' = RunCall(block_height, r)
    /\ UNCHANGED <<engineVars, storeVars, last, contextVars, prepVars,
                   delegatorVars>>

NextRollback == \E h \in TargetHeights : RollbackManagerRun(h)

(***************************************************************************)
(* CommitDelegator (iiss/commit_delegator.py)                              *)
(***************************************************************************)
\* The blocks passed to update_db, the calculation periods the issue
\* variables can hold, and the P-Rep lists the candidate engine can return.
BlockHeights == 0..MaxBlockHeight
CalcPeriods == {0, 1, 2}
PrepLists == {<<>>, <<"hx1">>, <<"hx1", "hx2">>}

\* The batches a precommit can carry when update_db is called: empty, or
\* with a record put while the block was executed.
TxRecord == [kind |-> "tx"]
RcBlockBatches == {<<>>, <<TxRecord>>}

\* IissDataCreator: the records put for the reward calculator.
CreateHeader(version, block_height) ==
    [kind |-> "header", version |-> version, block_height |-> block_height]
CreateGvVariable(block_height, incentive_rep, reward_rep) ==
    [kind |-> "gv", block_height |-> block_height,
     incentive_rep |-> incentive_rep, reward_rep |-> reward_rep]
CreatePrepData(block_height, generator, validator_list) ==
    [kind |-> "prep", block_height |-> block_height,
     generator |-> generator, validator_list |-> validator_list]

\* RcDataStorage.put(batch, data)
RcPut(batch, data) == Append(batch, data)

\* What update_db works on: the issue variables and the batch of the
\* precommit.
Iiss(next, period, batch) ==
    [calc_next_block_height |-> next, calc_period |-> period,
     rc_block_batch |-> batch]

\* Mutant: the period is also renewed at the stored height itself.
CheckUpdateAtOrAfter(s, block_height) ==
    block_height >= s.calc_next_block_height

\* _check_update_calc_period
CheckUpdateCalcPeriod(s, block_height) ==
    LET check_next_block_height == s.calc_next_block_height
    IN  block_height > check_next_block_height

\* _put_next_calc_block_height
PutNextCalcBlockHeight(s, block_height) ==
    [s EXCEPT !.calc_next_block_height = block_height + s.calc_period]

\* _put_header_for_rc
PutHeaderForRc(s, block_height) ==
    [s EXCEPT !.rc_block_batch = RcPut(@, CreateHeader(0, block_height))]

\* _put_gv_for_rc
PutGvForRc(s, block_height) ==
    [s EXCEPT !.rc_block_batch =
                  RcPut(@, CreateGvVariable(block_height, "incentive_rep",
                                            "reward_rep"))]

\* _put_block_produce_info_for_rc: candidates[:22], nothing for an empty list.
PutBlockProduceInfoForRc(s, candidates, block_height) ==
    LET preps == SubSeq(candidates, 1,
                        IF Len(candidates) < 22 THEN Len(candidates) ELSE 22)
    IN  IF Len(preps) = 0
        THEN s
        ELSE [s EXCEPT !.rc_block_batch =
                           RcPut(@, CreatePrepData(block_height, preps[1],
                                                   preps))]

\* CommitDelegator.update_db
UpdateDb(s, candidates, block_height) ==
    LET s1 == PutBlockProduceInfoForRc(s, candidates, block_height)
    IN  IF ~CheckUpdateCalcPeriod(s1, block_height)
        THEN s1
        ELSE PutGvForRc(
                 PutHeaderForRc(PutNextCalcBlockHeight(s1, block_height),
                                block_height),
                 block_height)

\* CommitDelegator.genesis_update_db
GenesisUpdateDb(s, block_height) ==
    PutGvForRc(PutHeaderForRc(PutNextCalcBlockHeight(s, block_height),
                              block_height),
               block_height)

DelegatorCall(op, block_height, batch) ==
    [op |-> op, block_height |-> block_height, batch_before |-> batch]

\* The delegator after genesis_update_db of block 0, for a period of two
\* blocks.
InitDelegator ==
    /\ calc_period = 2
    /\ calc_next_block_height =
          GenesisUpdateDb(Iiss(0, 2, <<>>), 0).calc_next_block_height
    /\ rc_block_batch = GenesisUpdateDb(Iiss(0, 2, <<>>), 0).rc_block_batch
    /\ cd_result = DelegatorCall("genesis_update_db", 0, <<>>)

\* The delegator after genesis_update_db of block 0, for any period.
InitAnyPeriod ==
    /\ calc_period \in CalcPeriods
    /\ calc_next_block_height =
          GenesisUpdateDb(Iiss(0, calc_period, <<>>), 0).calc_next_block_height
    /\ rc_block_batch =
          GenesisUpdateDb(Iiss(0, calc_period, <<>>), 0).rc_block_batch
    /\ cd_result = DelegatorCall("genesis_update_db", 0, <<>>)

DelegatorFrame ==
    UNCHANGED <<engineVars, storeVars, last, contextVars, prepVars,
                rollbackVars>>

CommitDelegatorUpdateDb(block_height, candidates, batch) ==
    /\ \E r \in {UpdateDb(Iiss(calc_next_block_height, calc_period, batch),
                          candidates, block_height)} :
          /\ calc_next_block_height' = r.calc_next_block_height
          /\ calc_period' = r.calc_period
          /\ rc_block_batch' = r.rc_block_batch
    /\ cd_result' = DelegatorCall("update_db", block_height, batch)
    /\ DelegatorFrame

\* CommitDelegator.send_ipc: the check is made and nothing is sent.
CommitDelegatorSendIpc(block_height, batch) ==
    /\ cd_result' = DelegatorCall("send_ipc", block_height, batch)
    /\ rc_block_batch' = batch
    /\ UNCHANGED <<calc_next_block_height, calc_period>>
    /\ DelegatorFrame

NextDelegator ==
    \/ \E h \in BlockHeights, c \in PrepLists, b \in RcBlockBatches :
          CommitDelegatorUpdateDb(h, c, b)
    \/ \E h \in BlockHeights, b \in RcBlockBatches :
          CommitDelegatorSendIpc(h, b)

\* One engine with Flag.NONE, nothing deployed.
InitEngine ==
    /\ SUPPORT_DATA_TYPES = <<"install", "update">>
    /\ flags = [e \in {"e1"} |-> FLAG_NONE]
    /\ deferred_tasks = [e \in {"e1"} |-> <<>>]
    /\ dicts = InitDicts
    /\ score_owner = [a \in Addresses |-> None]
    /\ fs_dirs = {}
    /\ fs_links = {}
    /\ score_mapper = {}
    /\ score_db = {}
    /\ on_install_calls = [a \in Addresses |-> 0]
    /\ last = Call("init", "e1", NoRequest, NoException, <<>>, <<>>)

Init ==
    /\ InitEngine
    /\ InitContext
    /\ InitStorage
    /\ InitRollback
    /\ InitDelegator

\* The state when the module has been imported and no engine exists yet.
InitClass ==
    /\ SUPPORT_DATA_TYPES = <<"install", "update">>
    /\ flags = [e \in {} |-> FLAG_NONE]
    /\ deferred_tasks = [e \in {} |-> <<>>]
    /\ dicts = InitDicts
    /\ score_owner = [a \in Addresses |-> None]
    /\ fs_dirs = {}
    /\ fs_links = {}
    /\ score_mapper = {}
    /\ score_db = {}
    /\ on_install_calls = [a \in Addresses |-> 0]
    /\ last = Call("import", None, NoRequest, NoException, <<>>, <<>>)
    /\ InitContext
    /\ InitStorage
    /\ InitRollback
    /\ InitDelegator

\* The supported data types after __init__ with the given flags.
SupportAfterInit(support, f) ==
    IF IsFlagOn(f, ENABLE_DEPLOY_AUDIT)
    THEN Append(support, "audit")
    ELSE support

\* IconScoreDeployEngine.__init__
Construct(e, f) ==
    /\ e \notin DOMAIN flags
    /\ flags' = (e :> f) @@ flags
    /\ deferred_tasks' = (e :> <<>>) @@ deferred_tasks
    /\ SUPPORT_DATA_TYPES' = SupportAfterInit(SUPPORT_DATA_TYPES, f)
    /\ last' = Call("construct", e, NoRequest, NoException, <<>>, <<>>)
    /\ UNCHANGED <<dicts, storeVars, contextVars, prepVars, rollbackVars, delegatorVars>>

\* The calls made on the engines of one process where some engines audit.
AuditRequests ==
    {Request(CtxA, "cx1", "audit", "d_tbears"),
     Request(CtxA, "cx1", "audit", "d_text"),
     Request(CtxB, "cx2", "remove", "d_tbears")}

NextAudit ==
    \/ \E e \in Engines, f \in Flags : Construct(e, f)
    \/ \E e \in Engines, r \in AuditRequests :
          Invoke(e, r.context, r.icon_score_address, r.data_type, r.data)
    \/ \E e \in Engines : Commit(e, CtxC)
    \/ \E e \in Engines : Rollback(e)

SpecAudit == InitClass /\ [][NextAudit]_vars

Next ==
    \/ \E r \in Requests :
          Invoke("e1", r.context, r.icon_score_address, r.data_type, r.data)
    \/ Commit("e1", CtxC)
    \/ Rollback("e1")

Spec == Init /\ [][Next]_vars

SpecContext == Init /\ [][NextContext]_vars

SpecStorage == Init /\ [][NextStorage]_vars

\* run can be called on any disk.
InitAnyDisk ==
    /\ InitEngine
    /\ InitContext
    /\ InitStorage
    /\ InitDisk
    /\ InitDelegator

SpecRollback == InitAnyDisk /\ [][NextRollback]_vars

\* update_db can be called for any period.
InitAnyDelegator ==
    /\ InitEngine
    /\ InitContext
    /\ InitStorage
    /\ InitRollback
    /\ InitAnyPeriod

SpecDelegator == InitAnyDelegator /\ [][NextDelegator]_vars

(***************************************************************************)
(* Properties of the deploy engine                                         *)
(***************************************************************************)
LogTasks(log) == [i \in DOMAIN log |-> log[i].task]

\* C1: right after every commit and every rollback the deferred task queue
\* of the engine is empty, also when tasks of the commit failed.
QueueEmptyAfterCommitOrRollback ==
    last.op \in {"commit", "rollback"} =>
        /\ last.exc = NoException
        /\ deferred_tasks[last.engine] = <<>>

\* A commit of at least two tasks, one of which raised, has left the queue
\* empty.
QueueDrainedAfterFailedTask ==
    /\ last.op = "commit"
    /\ Len(last.log) >= 2
    /\ \E i \in DOMAIN last.log : last.log[i].exc # NoException
    /\ deferred_tasks[last.engine] = <<>>

\* C2: rollback empties the queue and changes no owner, no directory or
\* link, no instance mapping and no database; a commit processes only tasks
\* that are in the queue when it is called, so a commit right after a
\* rollback processes nothing and the dropped tasks are never applied.
RollbackDiscardsTasks ==
    [][/\ last'.op = "rollback" =>
            /\ storeVars' = storeVars
            /\ dicts' = dicts
            /\ deferred_tasks'[last'.engine] = <<>>
            /\ last'.dropped = deferred_tasks[last'.engine]
       /\ last'.op = "commit" =>
            \A i \in DOMAIN last'.log :
                \E k \in DOMAIN deferred_tasks[last'.engine] :
                    deferred_tasks[last'.engine][k] = last'.log[i].task
       /\ (last.op = "rollback" /\ last'.op = "commit"
              /\ last'.engine = last.engine) =>
            /\ last'.log = <<>>
            /\ storeVars' = storeVars]_vars

\* Install tasks of cx1 have been dropped by rollback while cx1 has no owner
\* and no database, and an earlier commit had installed cx2.
RolledBackInstallNotApplied ==
    /\ last.op = "rollback"
    /\ Len(last.dropped) >= 2
    /\ \E i \in DOMAIN last.dropped :
          /\ last.dropped[i].data_type = "install"
          /\ last.dropped[i].icon_score_address = "cx1"
    /\ score_owner["cx1"] = None
    /\ "cx1" \notin score_db
    /\ score_owner["cx2"] # None

\* C3 as stated: on_install is called at most once per address and, for an
\* install task, exactly when no database existed for the address before
\* the task.
InstallHookExactlyWhenNoDb ==
    /\ \A a \in Addresses : on_install_calls[a] <= 1
    /\ last.op = "commit" =>
          \A i \in DOMAIN last.log :
              last.log[i].task.data_type = "install" =>
                  (last.log[i].on_install <=> ~last.log[i].db_existed)

\* C3 amended: on_install is called at most once per address; it is called
\* only for an install task that found no database for the address, and for
\* every such task whose steps before the hook did not raise; once it has
\* been called the database exists, and no later install task of the address
\* calls it again.
InstallHookAtMostOnce ==
    /\ \A a \in Addresses :
          /\ on_install_calls[a] <= 1
          /\ on_install_calls[a] = 1 => a \in score_db
    /\ last.op = "commit" =>
          \A i \in DOMAIN last.log :
              LET en == last.log[i]
              IN  /\ en.on_install =>
                        /\ en.task.data_type = "install"
                        /\ ~en.db_existed
                        /\ \A j \in DOMAIN last.log :
                              (j > i /\ last.log[j].task.icon_score_address
                                           = en.task.icon_score_address)
                                  => ~last.log[j].on_install
                  /\ (en.task.data_type = "install" /\ en.exc = NoException)
                        => (en.on_install <=> ~en.db_existed)

\* One commit has processed two install tasks of the same address: the first
\* called on_install, the second did not.
SecondInstallSkipsHook ==
    /\ last.op = "commit"
    /\ \E i, j \in DOMAIN last.log :
          /\ i < j
          /\ last.log[i].task.data_type = "install"
          /\ last.log[j].task.data_type = "install"
          /\ last.log[i].task.icon_score_address
                = last.log[j].task.icon_score_address
          /\ last.log[i].on_install
          /\ ~last.log[j].on_install
          /\ last.log[j].exc = NoException
          /\ on_install_calls[last.log[i].task.icon_score_address] = 1

\* C4: a successful invoke puts its task behind the tasks already queued,
\* and commit processes the queue from the first task to the last, whatever
\* the data types.
CommitInEnqueueOrder ==
    [][/\ (last'.op = "invoke" /\ last'.exc = NoException) =>
            SubSeq(deferred_tasks'[last'.engine], 1,
                   Len(deferred_tasks[last'.engine]))
                = deferred_tasks[last'.engine]
       /\ last'.op = "commit" =>
            LogTasks(last'.log) = deferred_tasks[last'.engine]]_vars

\* A commit has processed an install, an update and another install, in the
\* order of the queue.
MixedTypesCommitted ==
    /\ last.op = "commit"
    /\ Len(last.log) = 3
    /\ last.log[1].task.data_type = "install"
    /\ last.log[2].task.data_type = "update"
    /\ last.log[3].task.data_type = "install"
    /\ last.log[1].task # last.log[3].task

\* C5: invoke raises InvalidParamsException for an unsupported data type
\* (also when the content type is bad as well) and for a content type other
\* than application/tbears and application/zip; an invoke that raises leaves
\* the queue as it was.
InvokeRejectsInvalid ==
    [][last'.op = "invoke" =>
          LET rq == last'.request
          IN  /\ ~IsDataTypeSupported(rq.data_type)
                    => last'.exc = InvalidDataType
              /\ (/\ IsDataTypeSupported(rq.data_type)
                  /\ dicts[rq.data].contentType
                        \notin {"application/tbears", "application/zip"})
                    => last'.exc = InvalidContentType
              /\ last'.exc # NoException =>
                    /\ deferred_tasks' = deferred_tasks
                    /\ storeVars' = storeVars]_vars

\* An invoke with an unsupported data type and a bad content type has been
\* rejected for its data type while tasks were queued.
RejectedForDataTypeFirst ==
    /\ last.op = "invoke"
    /\ ~IsDataTypeSupported(last.request.data_type)
    /\ dicts[last.request.data].contentType = "text/plain"
    /\ last.exc = InvalidDataType
    /\ Len(deferred_tasks[last.engine]) >= 2

\* C6: a successful invoke appends one task with the block, tx and msg of
\* the context, the address, the data type and the payload to the end of the
\* queue of its engine, and changes no owner, directory, link, instance
\* mapping or database, nor any other engine.
InvokeAppendsOneTask ==
    [][(last'.op = "invoke" /\ last'.exc = NoException) =>
          LET rq == last'.request
              e == last'.engine
          IN  /\ deferred_tasks'[e] =
                    Append(deferred_tasks[e],
                           [block |-> rq.context.block, tx |-> rq.context.tx,
                            msg |-> rq.context.msg,
                            icon_score_address |-> rq.icon_score_address,
                            data_type |-> rq.data_type, data |-> rq.data])
              /\ \A o \in DOMAIN deferred_tasks \ {e} :
                    deferred_tasks'[o] = deferred_tasks[o]
              /\ storeVars' = storeVars
              /\ flags' = flags
              /\ SUPPORT_DATA_TYPES' = SUPPORT_DATA_TYPES]_vars

\* A successful invoke has queued a task behind two others while a SCORE is
\* installed.
TaskAppendedBehindOthers ==
    /\ last.op = "invoke"
    /\ last.exc = NoException
    /\ Len(deferred_tasks[last.engine]) = 3
    /\ deferred_tasks[last.engine][3].data = last.request.data
    /\ deferred_tasks[last.engine][3] # deferred_tasks[last.engine][1]
    /\ score_db # {}
    /\ fs_links # {}

\* C7 as stated: invoke leaves the caller's payload as it was, and every
\* invoke of a supported data type with the well-formed application/zip
\* payload succeeds.
InvokeRepeatable ==
    (/\ last.op = "invoke"
     /\ IsDataTypeSupported(last.request.data_type)
     /\ last.request.data = "d_zip") =>
        /\ dicts = InitDicts
        /\ last.exc = NoException

\* C8 as stated: an engine constructed without ENABLE_DEPLOY_AUDIT rejects
\* the data type audit.
AuditOnlyWithFlag ==
    (/\ last.op = "invoke"
     /\ last.request.data_type = "audit"
     /\ ~IsFlagOn(flags[last.engine], ENABLE_DEPLOY_AUDIT)) =>
        last.exc = InvalidDataType

\* C9: commit raises nothing; every queued task is processed, those behind
\* a task that raised included, and what the tasks before it did is kept: the
\* owner of an address is the origin of the last task that wrote it, and a
\* SCORE whose on_install was called has its database.
CommitSurvivesTaskFailure ==
    [][last'.op = "commit" =>
          /\ last'.exc = NoException
          /\ Len(last'.log) = Len(deferred_tasks[last'.engine])
          /\ \A i \in DOMAIN last'.log :
                LET en == last'.log[i]
                    a == en.task.icon_score_address
                IN  /\ en.task = deferred_tasks[last'.engine][i]
                    /\ en.task.data_type = "update" => en.exc # NoException
                    /\ (en.owner_written
                          /\ \A j \in DOMAIN last'.log :
                                (j > i /\ last'.log[j].task.icon_score_address = a)
                                    => ~last'.log[j].owner_written)
                          => score_owner'[a] = en.task.tx.origin
                    /\ en.on_install =>
                          /\ on_install_calls'[a] = on_install_calls[a] + 1
                          /\ a \in score_db']_vars

\* A commit has installed cx1, then met a task that raised, then installed
\* cx2 with its on_install call; the owner of cx1 is the first task's origin.
TasksAroundFailureApplied ==
    /\ last.op = "commit"
    /\ Len(last.log) = 3
    /\ last.log[1].task.icon_score_address = "cx1"
    /\ last.log[1].owner_written
    /\ last.log[2].exc # NoException
    /\ last.log[3].task.icon_score_address = "cx2"
    /\ last.log[3].on_install
    /\ score_owner["cx1"] = last.log[1].task.tx.origin
    /\ score_owner["cx2"] = last.log[3].task.tx.origin

\* C10: an update task fails at commit with NotImplementedError and changes
\* no owner, directory, link, instance mapping or database (a commit of
\* update tasks alone leaves them all as they were); the task leaves the
\* queue with the others.
UpdateNotImplemented ==
    [][last'.op = "commit" =>
          /\ \A i \in DOMAIN last'.log :
                last'.log[i].task.data_type = "update" =>
                    /\ last'.log[i].exc = "NotImplementedError"
                    /\ ~last'.log[i].changed
                    /\ ~last'.log[i].owner_written
                    /\ ~last'.log[i].on_install
          /\ (\A k \in DOMAIN deferred_tasks[last'.engine] :
                 deferred_tasks[last'.engine][k].data_type = "update")
                => storeVars' = storeVars
          /\ \A k \in DOMAIN deferred_tasks[last'.engine] :
                deferred_tasks[last'.engine][k].data_type = "update" =>
                    /\ k \in DOMAIN last'.log
                    /\ last'.log[k].task = deferred_tasks[last'.engine][k]
          /\ deferred_tasks'[last'.engine] = <<>>]_vars

\* A commit has processed an update task of an installed SCORE between
\* other tasks; the update raised NotImplementedError and the queue is empty.
UpdateTaskFailed ==
    /\ last.op = "commit"
    /\ Len(last.log) >= 2
    /\ \E i \in DOMAIN last.log :
          /\ last.log[i].task.data_type = "update"
          /\ last.log[i].exc = "NotImplementedError"
          /\ last.log[i].db_existed
    /\ score_owner["cx1"] # None
    /\ deferred_tasks[last.engine] = <<>>

\* C11: after a commit the owner of an address is the origin of the
\* transaction that was current when invoke queued the last install task
\* that wrote it, and the link of an application/tbears install is named
\* after that task's block height and tx index; neither comes from the
\* context passed to commit.
OwnerIsOriginAtInvoke ==
    /\ \A a \in Addresses : score_owner[a] # CtxC.tx.origin
    /\ \A l \in fs_links :
          <<l.height, l.index>> # <<CtxC.block.height, CtxC.tx.index>>
    /\ last.op = "commit" =>
          \A i \in DOMAIN last.log :
              LET en == last.log[i]
                  a == en.task.icon_score_address
              IN  (/\ en.owner_written
                   /\ \A j \in DOMAIN last.log :
                         (j > i /\ last.log[j].task.icon_score_address = a)
                             => ~last.log[j].owner_written)
                      => /\ score_owner[a] = en.task.tx.origin
                         /\ en.task.tx.origin \in {c.tx.origin : c \in Contexts}

\* A commit called with the context of hxC has installed cx1 from a task
\* queued in the transaction of hxB: the owner is hxB.
OwnerFromQueuedTransaction ==
    /\ last.op = "commit"
    /\ \E i \in DOMAIN last.log :
          /\ last.log[i].task.icon_score_address = "cx1"
          /\ last.log[i].task.data_type = "install"
          /\ last.log[i].owner_written
          /\ last.log[i].task.tx.origin = "hxB"
    /\ score_owner["cx1"] = "hxB"
    /\ CtxC.tx.origin = "hxC"

\* C12: on_install runs with the task's context on top of the context stack,
\* after the hook has returned or raised the context stack is what it was
\* before the call, and no exception raised by the hook leaves the install
\* procedure.
HookContained ==
    last.op = "commit" =>
        \A i \in DOMAIN last.log :
            LET en == last.log[i]
            IN  en.on_install =>
                    /\ en.hook_stack =
                          Append(en.stack_before,
                                 RestoreContext(CtxC, en.task))
                    /\ en.stack_after = en.stack_before
                    /\ en.exc = NoException

\* C13: pop on an empty context stack (never pushed, fully popped or
\* cleared) raises FatalException and leaves the stack empty; pop on a
\* non-empty stack does not raise.
PopFailsExactlyOnEmpty ==
    [][ctx_result'.op = "pop" =>
          LET t == ctx_result'.thread
          IN  IF GetContextStackSize(context_stack, t) = 0
              THEN /\ ctx_result'.exc = FatalException
                   /\ GetContextStackSize(context_stack', t) = 0
                   /\ GetContext(context_stack', t).ret = NoContext
              ELSE ctx_result'.exc = NoException]_vars

PopFailedOnPoppedStack ==
    /\ ctx_result.op = "pop"
    /\ ctx_result.exc = FatalException
    /\ context_stack[ctx_result.thread] = List(<<>>)

\* C14: the context stack of a thread is a LIFO: push puts the context on
\* top, get returns the top (none when the stack is empty) and leaves the
\* stack alone, pop returns the top and removes only it, after clear the
\* size is 0.
StackIsLifo ==
    [][LET t == ctx_result'.thread
           before == StackItems(context_stack, t)
           after == StackItems(context_stack', t)
           top == IF before = <<>> THEN NoContext ELSE before[Len(before)]
       IN  /\ ctx_result'.op = "push" =>
                 /\ after = Append(before, ctx_result'.arg)
                 /\ GetContext(context_stack', t).ret = ctx_result'.arg
           /\ ctx_result'.op = "get" =>
                 /\ ctx_result'.ret = top
                 /\ ctx_result'.exc = NoException
                 /\ context_stack' = context_stack
           /\ (ctx_result'.op = "pop" /\ before # <<>>) =>
                 /\ ctx_result'.ret = top
                 /\ after = SubSeq(before, 1, Len(before) - 1)
           /\ ctx_result'.op = "clear" =>
                 /\ GetContextStackSize(context_stack', t) = 0
                 /\ GetContext(context_stack', t).ret = NoContext]_vars

PopReturnedNewest ==
    /\ ctx_result.op = "pop"
    /\ ctx_result.ret = CtxB
    /\ StackItems(context_stack, ctx_result.thread) = <<CtxA>>

\* C15: push, pop and clear by one thread change nothing that get, pop or
\* the stack size return on another thread.
ThreadsIsolated ==
    [][\A u \in Threads :
          (u # ctx_result'.thread /\ ctx_result'.op \in {"push", "pop", "clear"})
              => /\ GetContext(context_stack', u).ret
                       = GetContext(context_stack, u).ret
                 /\ PopContext(context_stack', u).ret
                       = PopContext(context_stack, u).ret
                 /\ PopContext(context_stack', u).exc
                       = PopContext(context_stack, u).exc
                 /\ GetContextStackSize(context_stack', u)
                       = GetContextStackSize(context_stack, u)]_vars

OtherThreadKeptStack ==
    /\ ctx_result.op = "clear"
    /\ ctx_result.thread = "t1"
    /\ StackItems(context_stack, "t1") = <<>>
    /\ StackItems(context_stack, "t2") = <<CtxA, CtxB>>

\* C16: as long as put_prep_registration_fee has not been called, after
\* every open the persisted fee and the cached fee are the default of the
\* first open that found no persisted fee; an open that finds a persisted
\* fee ignores its default and writes nothing.
OpenIsIdempotentBootstrap ==
    [][(prep_result'.op = "open" /\ ~fee_overwritten') =>
          /\ first_fee' # Nothing
          /\ first_fee' \in {Some(f) : f \in Fees}
          /\ GetPrepRegistrationFee(prep_db', prep_registration_fee').ret
                = first_fee'
          /\ prep_registration_fee' = first_fee'
          /\ first_fee # Nothing =>
                /\ first_fee' = first_fee
                /\ prep_db' = prep_db]_vars

LaterDefaultIgnored ==
    /\ prep_result.op = "open"
    /\ prep_result.args = <<7>>
    /\ ~fee_overwritten
    /\ first_fee = Some(0)
    /\ prep_registration_fee = Some(0)
    /\ Loads(prep_db[PREP_REGISTRATION_FEE_KEY].bytes) = <<0, 0>>

\* C17: get_prep of an address returns the record of the last put_prep for
\* that address that no delete_prep followed, with the requested address,
\* whatever the revision of the put and whatever was put or deleted at
\* other addresses.
PutPrepThenGetPrep ==
    \A a \in PRepAddresses :
        last_put[a] # Nothing =>
            LET r == GetPrep(prep_db, prep_registration_fee, a)
            IN  /\ r.exc = NoException
                /\ r.ret = last_put[a]
                /\ r.ret[1].address = a
                /\ r.db = prep_db

PrepReadAfterOtherDeleted ==
    /\ prep_result.op = "get_prep"
    /\ prep_result.args = <<"hx1">>
    /\ prep_result.exc = NoException
    /\ prep_result.ret = Some([address |-> "hx1", status |-> "unregistered"])
    /\ prep_db[MakeKey("hx1")].bytes[2] = SchemaVersion("rev_b")
    /\ "hx2" \in ever_put
    /\ last_put["hx2"] = Nothing

\* C18: get_prep of an address without a stored record (never put, or
\* removed by delete_prep) raises InvalidParamsException; a get_prep that
\* does not raise returns a record.
GetPrepRaisesWhenAbsent ==
    /\ \A a \in PRepAddresses :
          last_put[a] = Nothing =>
              LET r == GetPrep(prep_db, prep_registration_fee, a)
              IN  /\ r.exc = InvalidParamsException
                  /\ r.ret = Nothing
    /\ prep_result.op = "get_prep" =>
          /\ prep_result.exc \in {NoException, InvalidParamsException}
          /\ prep_result.exc = NoException <=> prep_result.ret # Nothing
          /\ prep_result.exc = NoException =>
                prep_result.ret[1] \in PReps

GetPrepAfterDeleteRaised ==
    /\ prep_result.op = "get_prep"
    /\ prep_result.exc = InvalidParamsException
    /\ prep_result.args[1] \in ever_put

\* C19: put_terms with two terms followed by get_terms returns exactly the
\* two terms; get_terms returns None, without raising, for a slot that was
\* never written.
TermsRoundTrip ==
    /\ [](LET r == GetTerms(prep_db, prep_registration_fee)
          IN  /\ r.exc = NoException
              /\ ~prep_db[TermKey0].present => r.ret[1] = Nothing
              /\ ~prep_db[TermKey1].present => r.ret[2] = Nothing)
    /\ [][(/\ prep_result'.op = "put_terms"
           /\ prep_result'.args[1] # Nothing
           /\ prep_result'.args[2] # Nothing) =>
              LET r == GetTerms(prep_db', prep_registration_fee')
              IN  /\ r.exc = NoException
                  /\ r.ret = <<prep_result'.args[1], prep_result'.args[2]>>]_vars

BothTermsReadBack ==
    /\ prep_result.op = "get_terms"
    /\ prep_result.exc = NoException
    /\ prep_result.ret[1] \in {Some(t) : t \in Terms}
    /\ prep_result.ret[2] \in {Some(t) : t \in Terms}
    /\ prep_result.ret[1] # prep_result.ret[2]

\* C20: put_terms writes only the slots whose argument is not None:
\* put_terms(None, cur) leaves the stored previous term as it is,
\* put_terms(prev, None) leaves the stored current term as it is, and no
\* key other than the two term keys is written.
PutTermsWritesGivenSlotsOnly ==
    [][prep_result'.op = "put_terms" =>
          /\ \A k \in DbKeys \ {TermKey0, TermKey1} : prep_db'[k] = prep_db[k]
          /\ prep_result'.args[1] = Nothing =>
                /\ prep_db'[TermKey0] = prep_db[TermKey0]
                /\ GetTerm(prep_db', TermKey0) = GetTerm(prep_db, TermKey0)
          /\ prep_result'.args[2] = Nothing =>
                /\ prep_db'[TermKey1] = prep_db[TermKey1]
                /\ GetTerm(prep_db', TermKey1) = GetTerm(prep_db, TermKey1)]_vars

PreviousTermKept ==
    /\ prep_result.op = "put_terms"
    /\ prep_result.args[1] = Nothing
    /\ prep_result.args[2] # Nothing
    /\ prep_db[TermKey0].present
    /\ GetTerm(prep_db, TermKey0).ret # prep_result.args[2]
    /\ GetTerm(prep_db, TermKey1).ret = prep_result.args[2]

\* C21: run returns (-1, False) without raising when the target height is
\* negative or no backup file exists for it, and then the state store, the
\* reward-calc databases and the backup files are as before.
SentinelChangesNothing ==
    [][(/\ rb_result'.op = "run"
        /\ \/ rb_result'.block_height < 0
           \/ ~backup_files[rb_result'.block_height].exists) =>
          /\ rb_result'.ret = <<-1, FALSE>>
          /\ rb_result'.exc = NoException
          /\ rb_result'.steps = <<>>
          /\ icx_db' = icx_db
          /\ rc_dirs' = rc_dirs
          /\ backup_files' = backup_files]_vars

SentinelForMissingBackup ==
    /\ rb_result.op = "run"
    /\ rb_result.block_height = 1
    /\ rb_result.ret = <<-1, FALSE>>
    /\ ~backup_files[1].exists
    /\ backup_files[0].exists
    /\ rc_dirs.iiss.exists

\* C22: when run raises, neither the state store nor the reward-calc
\* databases and directories differ from what they were before the call.
RaisingRunChangesNothing ==
    [][(rb_result'.op = "run" /\ rb_result'.exc # NoException) =>
          /\ icx_db' = icx_db
          /\ rc_dirs' = rc_dirs]_vars

\* The step of run that completes the reward-calc replay.
RcReplaySteps == {"rc_write_batch", "remove_block_produce_info"}

\* C23 as stated: whenever run has deleted the backup file or returned a
\* non-negative height, the reward-calc step and the state batch of the
\* file have been applied.
DeletedOnlyAfterBothBatches ==
    [][(/\ rb_result'.op = "run"
        /\ \/ \E i \in DOMAIN rb_result'.steps : rb_result'.steps[i] = "remove"
           \/ (rb_result'.ret # NoReturn /\ rb_result'.ret[1] >= 0)) =>
          /\ \E i \in DOMAIN rb_result'.steps :
                rb_result'.steps[i] \in RcReplaySteps
          /\ \E i \in DOMAIN rb_result'.steps :
                rb_result'.steps[i] = "state_write_batch"]_vars

\* C23 amended: whenever run has deleted the backup file or returned a
\* non-negative height, either the file held exactly two batches and the
\* reward-calc step and then the state batch were applied before the file
\* was deleted, or it held another number of batches and nothing was
\* replayed.
DeletedOnlyAfterReplayOrNothingToReplay ==
    [][(/\ rb_result'.op = "run"
        /\ \/ \E i \in DOMAIN rb_result'.steps : rb_result'.steps[i] = "remove"
           \/ (rb_result'.ret # NoReturn /\ rb_result'.ret[1] >= 0)) =>
          LET file == backup_files[rb_result'.block_height]
              steps == rb_result'.steps
          IN  /\ file.exists
              /\ rb_result'.exc = NoException
              /\ IF LogCount(file) = 2
                 THEN /\ \E i, j \in DOMAIN steps :
                            /\ i < j
                            /\ steps[i] \in RcReplaySteps
                            /\ steps[j] = "state_write_batch"
                            /\ \A k \in DOMAIN steps :
                                  steps[k] = "remove" => k > j
                      /\ icx_db' = WriteBatch(icx_db, GetIterator(file, "state"))
                 ELSE /\ steps \in {<<>>, <<"remove">>}
                      /\ icx_db' = icx_db
                      /\ rc_dirs' = rc_dirs]_vars

FileDeletedAfterReplay ==
    /\ rb_result.op = "run"
    /\ rb_result.ret = <<0, FALSE>>
    /\ rb_result.steps = <<"rc_write_batch", "state_write_batch", "remove">>
    /\ ~backup_files[0].exists
    /\ icx_db["sk1"] = "s_at_0"
    /\ rc_dirs.current.records[RcDataKey] = "rc_at_0"

HeightMismatchIsFatal ==
    [][(/\ rb_result'.op = "run"
        /\ rb_result'.block_height >= 0
        /\ backup_files[rb_result'.block_height].exists
        /\ backup_files[rb_result'.block_height].height
              # rb_result'.block_height) =>
          /\ rb_result'.exc # NoException
          /\ rb_result'.failed # "reader_open" =>
                rb_result'.exc = AssertionError
          /\ rb_result'.ret = NoReturn
          /\ rb_result'.steps = <<>>
          /\ icx_db' = icx_db
          /\ rc_dirs' = rc_dirs
          /\ backup_files' = backup_files]_vars

HeightMismatchRaised ==
    /\ rb_result.op = "run"
    /\ rb_result.block_height = 0
    /\ backup_files[0].exists
    /\ backup_files[0].height = 1
    /\ LogCount(backup_files[0]) = 2
    /\ rb_result.exc = AssertionError
    /\ rb_result.ret = NoReturn

\* The calls of the period-boundary procedure that an I/O failure can stop.
BoundaryFaults == {"reader_open", "rmtree", "rename", "from_path", "crash"}

\* run reaches the period-boundary procedure: the file exists, carries the
\* target height and two batches, and its calc-period-end bit is set.
BoundaryProcedureRuns ==
    /\ rb_result'.op = "run"
    /\ rb_result'.block_height >= 0
    /\ backup_files[rb_result'.block_height].exists
    /\ backup_files[rb_result'.block_height].height = rb_result'.block_height
    /\ LogCount(backup_files[rb_result'.block_height]) = 2
    /\ IsCalcPeriodEndBlock(backup_files[rb_result'.block_height].state)
    /\ rb_result'.failed \notin BoundaryFaults

\* C26: the period-boundary procedure with both the current and the iiss
\* database present leaves one database, at the current path, holding the
\* records of the former iiss database without the block-production-info
\* record of the target height; the iiss path is absent.
BothPresentLeavesIissAtCurrent ==
    [][(/\ BoundaryProcedureRuns
        /\ rc_dirs.current.exists
        /\ rc_dirs.iiss.exists
        /\ ~rc_dirs.standby.exists) =>
          LET h == rb_result'.block_height
          IN  /\ Len(rb_result'.steps) >= 3
              /\ SubSeq(rb_result'.steps, 1, 3)
                    = <<"rmtree", "rename", "remove_block_produce_info">>
              /\ rc_dirs'.current.exists
              /\ ~rc_dirs'.iiss.exists
              /\ ~rc_dirs'.standby.exists
              /\ \A k \in RcKeys :
                    rc_dirs'.current.records[k] =
                        IF k = MakeBlockProduceInfoKey(h) THEN NoRecord
                        ELSE rc_dirs.iiss.records[k]]_vars

IissMovedToCurrent ==
    /\ rb_result.op = "run"
    /\ rb_result.block_height = 1
    /\ rb_result.ret = <<1, TRUE>>
    /\ Len(rb_result.steps) >= 3
    /\ SubSeq(rb_result.steps, 1, 3)
          = <<"rmtree", "rename", "remove_block_produce_info">>
    /\ rc_dirs.current.exists
    /\ rc_dirs.current.records[RcDataKey] = "rc_iiss"
    /\ rc_dirs.current.records[MakeBlockProduceInfoKey(0)] = "bp_iiss"
    /\ rc_dirs.current.records[MakeBlockProduceInfoKey(1)] = NoRecord
    /\ ~rc_dirs.iiss.exists

\* C27: the period-boundary procedure with neither the current nor the iiss
\* database present raises the database-missing error; run lets it out, the
\* state batch is not applied and the backup file stays.
NeitherPresentIsFatal ==
    [][(/\ rb_result'.op = "run"
        /\ rb_result'.block_height >= 0
        /\ backup_files[rb_result'.block_height].exists
        /\ backup_files[rb_result'.block_height].height
              = rb_result'.block_height
        /\ LogCount(backup_files[rb_result'.block_height]) = 2
        /\ IsCalcPeriodEndBlock(backup_files[rb_result'.block_height].state)
        /\ ~rc_dirs.current.exists
        /\ ~rc_dirs.iiss.exists) =>
          /\ rb_result'.exc # NoException
          /\ (rb_result'.failed # "reader_open" /\ ~rc_dirs.standby.exists)
                => /\ rb_result'.exc = DatabaseException
                   /\ rb_result'.failed = ""
          /\ rb_result'.ret = NoReturn
          /\ rb_result'.steps = <<>>
          /\ icx_db' = icx_db
          /\ rc_dirs' = rc_dirs
          /\ backup_files' = backup_files]_vars

RcDbNotFoundRaised ==
    /\ rb_result.op = "run"
    /\ rb_result.block_height = 1
    /\ rb_result.exc = DatabaseException
    /\ rb_result.failed = ""
    /\ rb_result.steps = <<>>
    /\ backup_files[1] = BackupFile(1, CALC_PERIOD_END_BLOCK, 2)
    /\ ~rc_dirs.current.exists
    /\ ~rc_dirs.iiss.exists
    /\ ~rc_dirs.standby.exists
    /\ icx_db["sk1"] = "s_new"

\* The ways os.remove of the backup file can fail.
RemoveFaults == {"remove_not_found", "remove_error"}

\* C28: when the deletion of the backup file fails after the replay, because
\* the file is already gone or for any other reason, run raises nothing and
\* returns the target height with the calc-period-end bit, and both stores
\* hold what the replay wrote.
DeleteFailureIsNotFatal ==
    [][(/\ rb_result'.op = "run"
        /\ rb_result'.failed \in RemoveFaults) =>
          LET h == rb_result'.block_height
              file == backup_files[h]
              steps == rb_result'.steps
          IN  /\ rb_result'.exc = NoException
              /\ rb_result'.ret = <<h, IsCalcPeriodEndBlock(file.state)>>
              /\ LogCount(file) = 2 =>
                    /\ Len(steps) >= 2
                    /\ steps[Len(steps)] = "state_write_batch"
                    /\ steps[Len(steps) - 1] \in RcReplaySteps
                    /\ icx_db' = WriteBatch(icx_db, GetIterator(file, "state"))
                    /\ rc_dirs'.current.exists
                    /\ ~IsCalcPeriodEndBlock(file.state) =>
                          rc_dirs'.current.records[RcDataKey]
                              = GetIterator(file, "rc")[RcDataKey]
              /\ LogCount(file) # 2 =>
                    /\ steps = <<>>
                    /\ icx_db' = icx_db
                    /\ rc_dirs' = rc_dirs
              /\ rb_result'.failed = "remove_error" =>
                    backup_files' = backup_files
              /\ rb_result'.failed = "remove_not_found" =>
                    ~backup_files'[h].exists]_vars

StaleFileAfterReplay ==
    /\ rb_result.op = "run"
    /\ rb_result.block_height = 0
    /\ rb_result.failed = "remove_error"
    /\ rb_result.exc = NoException
    /\ rb_result.ret = <<0, FALSE>>
    /\ rb_result.steps = <<"rc_write_batch", "state_write_batch">>
    /\ backup_files[0] = BackupFile(0, 0, 2)
    /\ icx_db["sk1"] = "s_at_0"
    /\ rc_dirs.current.records[RcDataKey] = "rc_at_0"

\* C31: the period-boundary procedure with the current database absent and
\* the iiss database present completes without error; afterwards the
\* records of the former iiss database are at the current path and the iiss
\* path is absent.
IissOnlyRenamedToCurrent ==
    [][(/\ BoundaryProcedureRuns
        /\ ~rc_dirs.current.exists
        /\ rc_dirs.iiss.exists
        /\ ~rc_dirs.standby.exists) =>
          /\ \E j \in DOMAIN rb_result'.steps :
                rb_result'.steps[j] = "remove_block_produce_info"
          /\ rc_dirs'.current.exists
          /\ rc_dirs'.current.records[RcDataKey]
                = rc_dirs.iiss.records[RcDataKey]
          /\ ~rc_dirs'.iiss.exists]_vars

\* C32: when the backup file of the target height holds a number of batches
\* other than two, run raises nothing and replays nothing: the state store
\* and the reward-calc databases are as before.
OtherBatchCountReplaysNothing ==
    [][(/\ rb_result'.op = "run"
        /\ rb_result'.block_height >= 0
        /\ backup_files[rb_result'.block_height].exists
        /\ backup_files[rb_result'.block_height].height
              = rb_result'.block_height
        /\ LogCount(backup_files[rb_result'.block_height]) # 2
        /\ rb_result'.failed # "reader_open") =>
          /\ rb_result'.exc = NoException
          /\ rb_result'.ret =
                <<rb_result'.block_height,
                  IsCalcPeriodEndBlock(
                      backup_files[rb_result'.block_height].state)>>
          /\ \A j \in DOMAIN rb_result'.steps : rb_result'.steps[j] = "remove"
          /\ icx_db' = icx_db
          /\ rc_dirs' = rc_dirs]_vars

ThreeBatchesSkipped ==
    /\ rb_result.op = "run"
    /\ rb_result.block_height = 1
    /\ rb_result.ret = <<1, TRUE>>
    /\ rb_result.steps = <<"remove">>
    /\ rb_result.failed = ""
    /\ ~backup_files[1].exists
    /\ icx_db["sk1"] = "s_new"
    /\ rc_dirs.iiss.exists
    /\ rc_dirs.current.exists

\* C33: after a period-boundary procedure that completes, the current
\* database holds no block-production-info record of the target height, and
\* each of its other records is the one the resolved database held (the
\* former iiss database when both were present, the current one otherwise).
CompletedBoundaryRemovesOnlyTargetRecord ==
    [][(/\ rb_result'.op = "run"
        /\ \E j \in DOMAIN rb_result'.steps :
              rb_result'.steps[j] = "remove_block_produce_info") =>
          LET h == rb_result'.block_height
              resolved == IF rc_dirs.iiss.exists THEN rc_dirs.iiss
                          ELSE rc_dirs.current
          IN  /\ rc_dirs'.current.exists
              /\ rc_dirs'.current.records[MakeBlockProduceInfoKey(h)]
                    = NoRecord
              /\ \A k \in RcKeys \ {MakeBlockProduceInfoKey(h)} :
                    rc_dirs'.current.records[k] = resolved.records[k]]_vars

TargetRecordRemovedFromCurrent ==
    /\ rb_result.op = "run"
    /\ rb_result.block_height = 0
    /\ rb_result.ret = <<0, TRUE>>
    /\ rb_result.steps = <<"remove_block_produce_info", "state_write_batch",
                           "remove">>
    /\ rc_dirs.current.records[MakeBlockProduceInfoKey(0)] = NoRecord
    /\ rc_dirs.current.records[MakeBlockProduceInfoKey(1)] = "bp_cur"
    /\ rc_dirs.current.records[RcDataKey] = "rc_cur"

\* C34: when a standby database exists at the start of the period-boundary
\* procedure, the procedure fails on its assertion: no directory is deleted
\* or renamed, no record is removed, and run applies no state batch.
StandbyPresentIsFatal ==
    [][(/\ rb_result'.op = "run"
        /\ rb_result'.block_height >= 0
        /\ backup_files[rb_result'.block_height].exists
        /\ backup_files[rb_result'.block_height].height
              = rb_result'.block_height
        /\ LogCount(backup_files[rb_result'.block_height]) = 2
        /\ IsCalcPeriodEndBlock(backup_files[rb_result'.block_height].state)
        /\ rb_result'.failed # "reader_open"
        /\ rc_dirs.standby.exists) =>
          /\ rb_result'.exc = AssertionError
          /\ rb_result'.ret = NoReturn
          /\ rb_result'.steps = <<>>
          /\ rc_dirs' = rc_dirs
          /\ icx_db' = icx_db
          /\ backup_files' = backup_files]_vars

StandbyAssertionRaised ==
    /\ rb_result.op = "run"
    /\ rb_result.block_height = 1
    /\ rb_result.exc = AssertionError
    /\ rb_result.steps = <<>>
    /\ backup_files[1] = BackupFile(1, CALC_PERIOD_END_BLOCK, 2)
    /\ rc_dirs.standby.exists
    /\ rc_dirs.current.exists
    /\ rc_dirs.iiss.exists
    /\ icx_db["sk1"] = "s_new"

\* C35: the deletion of the current database and the renaming of the iiss
\* database are two steps: a process that stops between them, with both
\* databases present before, leaves no database at the current path while
\* the iiss database and the backup file are still there.
CrashBetweenDeleteAndRename ==
    [][(/\ rb_result'.op = "run"
        /\ rb_result'.failed = "crash") =>
          /\ rc_dirs.current.exists
          /\ rc_dirs.iiss.exists
          /\ rb_result'.steps = <<"rmtree">>
          /\ rb_result'.ret = NoReturn
          /\ ~rc_dirs'.current.exists
          /\ rc_dirs'.iiss = rc_dirs.iiss
          /\ backup_files' = backup_files
          /\ backup_files'[rb_result'.block_height].exists
          /\ icx_db' = icx_db]_vars

NoCurrentDatabaseAfterCrash ==
    /\ rb_result.op = "run"
    /\ rb_result.failed = "crash"
    /\ rb_result.steps = <<"rmtree">>
    /\ ~rc_dirs.current.exists
    /\ rc_dirs.iiss = IissDb
    /\ backup_files[rb_result.block_height].exists

\* C36: a rollback to a height is consumed by its first success: when run has
\* returned the height and removed the backup file, the next run for the same
\* height returns (-1, FALSE) and changes neither the state store nor a
\* reward-calc database.
SecondRunIsSentinel ==
    [][(/\ rb_result.op = "run"
        /\ rb_result.exc = NoException
        /\ rb_result.block_height >= 0
        /\ rb_result.ret # NoReturn
        /\ rb_result.ret[1] = rb_result.block_height
        /\ rb_result.failed # "remove_error"
        /\ rb_result'.op = "run"
        /\ rb_result'.block_height = rb_result.block_height) =>
          /\ ~backup_files[rb_result.block_height].exists
          /\ rb_result'.exc = NoException
          /\ rb_result'.ret = <<-1, FALSE>>
          /\ rb_result'.steps = <<>>
          /\ icx_db' = icx_db
          /\ rc_dirs' = rc_dirs
          /\ backup_files' = backup_files]_vars

SentinelAfterConsumedRollback ==
    /\ rb_result.op = "run"
    /\ rb_result.block_height = 0
    /\ rb_result.ret = <<-1, FALSE>>
    /\ ~backup_files[0].exists
    /\ icx_db["sk1"] = "s_at_0"
    /\ rc_dirs.current.records[RcDataKey] = "rc_at_0"

\* C37: on a Storage that has been opened, the fee cached in memory
\* (prep_registration_fee) is the fee persisted in the database.
CachedFeeIsPersistedFee ==
    prep_registration_fee # Nothing =>
        GetPrepRegistrationFee(prep_db, prep_registration_fee).ret
            = prep_registration_fee

\* C38: every install task that reaches the owner-recording step writes the
\* owner, whether or not the address has a database: an install task for an
\* address that has one sets the owner to the origin of the task's
\* transaction and does not call on_install.
OwnerWrittenByEveryInstall ==
    last.op = "commit" =>
        \A i \in DOMAIN last.log :
            LET en == last.log[i]
            IN  en.task.data_type = "install" =>
                    /\ en.owner_written <=> en.exc # "OSError"
                    /\ en.owner_written =>
                          en.owner_after = en.task.tx.origin
                    /\ (en.db_existed /\ en.exc # "OSError") =>
                          /\ en.owner_written
                          /\ ~en.on_install
                          /\ en.exc = NoException

\* One commit has installed an address twice: the task of hxA ran on_install,
\* the later task of hxB found the database, ran no hook and made hxB the
\* owner.
ReinstallChangesOwner ==
    /\ last.op = "commit"
    /\ \E i, j \in DOMAIN last.log :
          /\ i < j
          /\ last.log[i].task.icon_score_address = "cx1"
          /\ last.log[j].task.icon_score_address = "cx1"
          /\ last.log[i].task.data_type = "install"
          /\ last.log[j].task.data_type = "install"
          /\ last.log[i].on_install
          /\ last.log[i].owner_after = "hxA"
          /\ last.log[j].db_existed
          /\ ~last.log[j].on_install
          /\ last.log[j].owner_written
          /\ last.log[j].owner_after = "hxB"
    /\ score_owner["cx1"] = "hxB"

\* C39: an install hook that raises is not retried: what it raises does not
\* leave commit (an Exception does not even leave the install procedure),
\* the owner written before the hook is kept, the database of the address
\* exists afterwards, and no later install task of the address calls the
\* hook again.
RaisingHookNotRetried ==
    /\ \A a \in Addresses : on_install_calls[a] <= 1
    /\ last.op = "commit" =>
          \A i \in DOMAIN last.log :
              LET en == last.log[i]
                  a == en.task.icon_score_address
              IN  en.hook_raised =>
                      /\ en.on_install
                      /\ last.exc = NoException
                      /\ en.exc # "Exception"
                      /\ en.owner_written
                      /\ en.owner_after = en.task.tx.origin
                      /\ a \in score_db
                      /\ on_install_calls[a] = 1
                      /\ \A j \in DOMAIN last.log :
                            (j > i /\ last.log[j].task.icon_score_address = a)
                                => /\ ~last.log[j].on_install
                                   /\ last.log[j].db_existed

\* The hook of cx1 raised an Exception in the first task of a commit; a later
\* install task of cx1 in the same commit found the database and called no
\* hook.
FailedHookSkippedLater ==
    /\ last.op = "commit"
    /\ \E i, j \in DOMAIN last.log :
          /\ i < j
          /\ last.log[i].task.icon_score_address = "cx1"
          /\ last.log[j].task.icon_score_address = "cx1"
          /\ last.log[i].hook_raised
          /\ last.log[i].exc = NoException
          /\ last.log[i].owner_written
          /\ last.log[j].task.data_type = "install"
          /\ last.log[j].exc = NoException
          /\ ~last.log[j].on_install
    /\ on_install_calls["cx1"] = 1
    /\ "cx1" \in score_db

\* The records of a batch that are headers or governance variables.
HeaderAndGvRecords(batch) ==
    SelectSeq(batch, LAMBDA d : d.kind \in {"header", "gv"})

\* C40: update_db changes the stored next calculation block height only for
\* a block higher than the stored value, and sets it to the block height
\* plus the calculation period, putting a header and the governance
\* variables of the block into the batch; for any other block the stored
\* value is unchanged and neither record is put. With a period that is not
\* negative the stored value is then never below the height of the block.
NextCalcHeightRenewedPastStored ==
    [][cd_result'.op = "update_db" =>
          LET h == cd_result'.block_height
              before == cd_result'.batch_before
          IN  /\ h > calc_next_block_height =>
                    /\ calc_next_block_height' = h + calc_period
                    /\ HeaderAndGvRecords(rc_block_batch') =
                          HeaderAndGvRecords(before)
                              \o <<CreateHeader(0, h),
                                   CreateGvVariable(h, "incentive_rep",
                                                    "reward_rep")>>
              /\ h <= calc_next_block_height =>
                    /\ calc_next_block_height' = calc_next_block_height
                    /\ HeaderAndGvRecords(rc_block_batch') =
                          HeaderAndGvRecords(before)
              /\ calc_period' = calc_period
              /\ calc_period >= 0 => calc_next_block_height' >= h]_vars

\* update_db has been called for the block at the stored height, which left
\* the stored height and put block-production info only; an earlier call had
\* moved the stored height past the first period.
BlockAtStoredHeightSkipped ==
    /\ cd_result.op = "update_db"
    /\ cd_result.block_height = calc_next_block_height
    /\ calc_period = 2
    /\ calc_next_block_height = 5
    /\ Len(rc_block_batch) = 1
    /\ rc_block_batch[1].kind = "prep"
====
